---------------------------- MODULE Spec2Model ----------------------------
(***************************************************************************)
(* Model of the synchronization engine of siyuan-sync:                     *)
(*   SyncManager (sync-manager.ts), CloudIndexManager (cloud-index.ts),    *)
(*   ConflictHandler (conflict-handler.ts), SyncHistory (sync-history.ts), *)
(*   StorageItem (storage-item.ts), sync targets (sync-targets.ts).        *)
(*                                                                         *)
(* The specifications of the module:                                      *)
(*   SpecLock - two runs of SyncManager.sync() against one hub folder,     *)
(*              interleaved at the granularity of their hub requests, up   *)
(*              to and including the release of the lock;                  *)
(*   SpecRun  - one run of sync() over one target: index load, directory   *)
(*              traversal and single-file reconciliation;                  *)
(*   SpecDetect - ConflictHandler.detectConflict applied to arbitrary      *)
(*              timestamps and histories, and handleConflict repeated;     *)
(*   SpecFaulty - SpecRun with syncFile calls that fail;                   *)
(*   SpecLife - successive runs of sync(), step by step, each request of   *)
(*              which may fail.                                            *)
(*   SpecTargets - SpecRun over a list of two targets, one inside the      *)
(*              other;                                                     *)
(*   SpecIndex - updateFile/removeFile calls of CloudIndexManager made by  *)
(*              concurrent siblings, interleaved at the requests of save;  *)
(*   SpecUpload, SpecUploadFair - one Pan123Client.uploadSingle call;      *)
(*   SpecJoin - StorageItem.joinItems applied to two items;                *)
(*   SpecReport - the result message of successive runs;                   *)
(*   SpecSeries - successive runs of sync() over one file and its conflict *)
(*              copy, with changes on both sides between the runs;         *)
(*   SpecShared - runs of two SyncManagers against one hub index, from     *)
(*              the index load to the release of the lock.                 *)
(***************************************************************************)
EXTENDS Integers, Sequences, FiniteSets, TLC

VARIABLES
    \* ---- hub lock protocol (SpecLock) ----
    now,            \* wall clock, milliseconds (Date.now())
    createAtForm,   \* how the hub renders CloudFile.createAt
    hubLock,        \* the sync.lock object of the hub folder, or NoLock
    nextFileId,     \* next file id the hub hands out
    hubIdentity,    \* TRUE iff the hub folder holds an instance-id object
    localIdentity,  \* per run: TRUE iff the device holds its instance-id file
    pc,             \* per run: position inside sync()
    lockSeen,       \* per run: the lock file found by the last listFiles
    startedAt,      \* per run: time at which sync() was called
    mutations,      \* per run: objects written or deleted so far
    \* ---- one run over one target (SpecRun) ----
    phase,          \* position of the run inside sync()
    atStart,        \* the files, index and histories the run started from
    target,         \* the SyncTarget options of the target being synced
    conflictStrategy,
    localFiles,     \* local file system: path -> file version or NoFile
    localDirs,      \* directories that exist locally
    conflictCopies, \* local conflict copies written by handleConflict
    hubObjects,     \* data objects stored on the hub: path -> body or NoBody
    hubIndex,       \* persisted cloud-index-v2.json: path -> entry or NoEntry
    currentIndex,   \* CloudIndexManager.currentIndex (the run's cache)
    indexLoadFailed,\* TRUE iff load() substituted an empty index
    localHistory,   \* localRemote.syncHistory : peer -> seconds
    cloudHistory,   \* cloudRemote.syncHistory : peer -> seconds
    pendingDirs,    \* syncDirectory calls launched and not yet run
    pendingFiles,   \* syncFile calls launched and not yet run
    visited,        \* the syncFile calls that have run
    ops,            \* per path: the operations performed, in order
    conflictDetected,
    syncErrors,     \* SyncManager.syncErrors
    \* ---- successive runs of sync() with failing requests (SpecLife) ----
    step,           \* index in syncSteps of the step sync() executes next
    events,         \* what the current run has done so far, in order
    result,         \* "none", "running", "returned" or "thrown"
    failedAt,       \* the step whose exception is propagating, or "none"
    releaseFailed,  \* TRUE iff releaseLock caught an error in this run
    hadErrors,      \* TRUE iff the run recorded a SyncError
    idObjects,      \* persisted instance-id objects: side -> id, 0 if none
    remoteIds,      \* the ids the run resolved: side -> id, 0 if none
    nextInstanceId, \* the value the next generateInstanceId() returns
    lifeLock,       \* TRUE iff the hub folder holds a sync.lock object
    persisted,      \* persisted sync-history.json: side -> history
    loaded,         \* Remote.syncHistory of the run: side -> history
    saved,          \* side -> TRUE iff the run saved that side's history
    startPersisted, \* the persisted histories when the run started
    runs,           \* number of sync() calls so far
    \* ---- concurrent index calls of sibling reconciliations (SpecIndex) ----
    ixCache,        \* CloudIndexManager.currentIndex, shared by the calls
    ixObject,       \* the cloud-index-v2.json object of the hub folder
    ixNextId,       \* next file id the hub gives an uploaded index object
    ixCall,         \* per sibling: the updateFile/removeFile call in progress
    ixTrail,        \* the calls made so far, with the cached files after each
    ixFailed,       \* TRUE iff a call has thrown
    \* ---- one Pan123Client.uploadSingle call (SpecUpload) ----
    upPc,           \* "create", "slice", "complete", "returned" or "thrown"
    upSize,         \* options.size, in bytes
    upSession,      \* the UploadSession createUploadSession returned
    upOffset,       \* uploadSlices: offset
    upSliceNo,      \* uploadSlices: sliceNo
    upAttempt,      \* uploadSliceWithRetry: attempt
    upLog,          \* the slice requests made so far, with their replies
    upPolls,        \* completeUpload: upload_complete requests made so far
    upLastReply,    \* completeUpload: the reply to the last request
    upResult,       \* the UploadResult uploadSingle returned
    upListed,       \* file ids the hub folder lists
    \* ---- one StorageItem.joinItems call (SpecJoin) ----
    joinItem1,      \* the first argument, or NullStorageItem
    joinItem2,      \* the second argument, or NullStorageItem
    joinResult,     \* the StorageItem returned, NotJoined or JoinThrows
    \* ---- the result message of successive runs (SpecReport) ----
    rpPc,           \* "idle", "running", "reported" or "aborted"
    rpRuns,         \* number of sync() calls so far
    rpConflictDetected, \* SyncManager.conflictDetected
    rpSyncErrors,   \* SyncManager.syncErrors
    rpPushed,       \* SyncErrors recorded since the current run started
    rpDetected,     \* TRUE iff the current run has detected a conflict
    rpMessages,     \* the messages shown so far, one per run
    \* ---- one run over a list of targets (SpecTargets) ----
    targetsLeft,    \* the targets of the list the loop has not reached yet
    \* ---- successive runs over one file (SpecSeries) ----
    sqNow,          \* wall clock, seconds (Math.floor(Date.now() / 1000))
    sqTarget,       \* the SyncTarget options of the target
    sqStrategy,     \* SyncManager.conflictStrategy
    sqLocal,        \* local files: path -> timestamp, 0 if absent
    sqIndex,        \* hub index: path -> timestamp of the entry, 0 if none
    sqLocalHistory, \* persisted local sync history: peer -> seconds
    sqCloudHistory, \* persisted hub sync history: peer -> seconds
    sqPc,           \* "idle" or "syncing"
    sqPending,      \* the paths the current run has listed and not reconciled
    sqOps,          \* the operations the current run has performed
    sqErrors,       \* TRUE iff syncErrors of the current run is not empty
    sqSettled,      \* TRUE iff the last run had no errors and nothing changed since
    sqOnHub,        \* the paths that have ever been stored on the hub
    sqRuns,         \* number of completed runs
    \* ---- two managers, one hub index (SpecShared) ----
    shIndex,        \* the entries of the hub's cloud-index-v2.json
    shCache,        \* per manager: CloudIndexManager.currentIndex
    shLock,         \* the manager holding sync.lock, or "none"
    shPc,           \* per manager: position inside sync()
    shRuns,         \* per manager: number of finished runs
    shReleased,     \* entries persisted by runs that have released the lock
    shBase          \* per manager: shReleased when it acquired the lock

lockVars == <<now, createAtForm, hubLock, nextFileId, hubIdentity,
              localIdentity, pc, lockSeen, startedAt, mutations>>
runVars  == <<phase, atStart, target, conflictStrategy, localFiles, localDirs,
              conflictCopies, hubObjects, hubIndex, currentIndex,
              indexLoadFailed, localHistory, cloudHistory, pendingDirs,
              pendingFiles, visited, ops, conflictDetected, syncErrors>>
lifeVars == <<step, events, result, failedAt, releaseFailed, hadErrors,
              idObjects, remoteIds, nextInstanceId, lifeLock, persisted,
              loaded, saved, startPersisted, runs>>
indexVars == <<ixCache, ixObject, ixNextId, ixCall, ixTrail, ixFailed>>
\* the components modelled on their own
uploadVars == <<upPc, upSize, upSession, upOffset, upSliceNo, upAttempt,
                upLog, upPolls, upLastReply, upResult, upListed>>
joinVars == <<joinItem1, joinItem2, joinResult>>
reportVars == <<rpPc, rpRuns, rpConflictDetected, rpSyncErrors, rpPushed,
                rpDetected, rpMessages>>
targetVars == <<targetsLeft>>
seriesVars == <<sqNow, sqTarget, sqStrategy, sqLocal, sqIndex, sqLocalHistory,
                sqCloudHistory, sqPc, sqPending, sqOps, sqErrors, sqSettled,
                sqOnHub, sqRuns>>
sharedVars == <<shIndex, shCache, shLock, shPc, shRuns, shReleased, shBase>>
moreVars == <<seriesVars, sharedVars>>
partVars == <<indexVars, uploadVars, joinVars, reportVars, targetVars, moreVars>>
vars == <<lockVars, runVars, lifeVars, partVars>>

--------------------------------------------------------------------------
(* Bounds *)

\* the clock advances in steps of TickMs, at most MaxTicks times
TickMs == 150000
MaxTicks == 2
\* file timestamps range over 1..MaxFileTs, sync times over 0..MaxSyncTs
MaxFileTs == 2
MaxSyncTs == 2
\* handleConflict is applied to one conflict at most MaxRepeats times
MaxRepeats == 2
\* sync() is called at most MaxRuns times in a row
MaxRuns == 2
\* at most MaxIndexCalls calls of updateFile/removeFile are made
MaxIndexCalls == 2
\* an uploaded file has at most MaxUploadSize bytes
MaxUploadSize == 2
\* a StorageItem given to joinItems has at most MaxChildren children
MaxChildren == 2
\* a run records at most MaxErrors SyncErrors
MaxErrors == 2
\* the clock of SpecSeries runs from 1 to MaxNow seconds
MaxNow == 3

--------------------------------------------------------------------------
(* The hub lock: SyncManager.acquireLock / releaseLock *)

Runs == {"r1", "r2"}

fiveMinutesInMs == 5 * 60 * 1000

NoLock == [fileId |-> 0, createdAtMs |-> 0, holder |-> "none"]

\* JavaScript numbers: an integer, or NaN
Num(v) == [nan |-> FALSE, v |-> v]
NaN == [nan |-> TRUE, v |-> 0]

\* a - b on JavaScript numbers
Minus(a, b) == IF a.nan \/ b.nan THEN NaN ELSE Num(a.v - b.v)

\* a < b on JavaScript numbers: every comparison with NaN is false
LessThan(a, b) == ~a.nan /\ ~b.nan /\ a.v < b.v

\* the conversion the subtraction applies to lockFile.createAt, which
\* CloudFile declares a string: a string of digits converts to the number
\* it spells, a formatted date ("2025-10-27 10:00:00") converts to NaN
ToNumber(lock) ==
    IF createAtForm = "numeric" THEN Num(lock.createdAtMs) ELSE NaN

\* lockAge = now - (lockFile.createAt || 0)
lockAge(lock, nowMs) == Minus(Num(nowMs), ToNumber(lock))

\* the time that really passed since the lock object was created
TrueAge(lock, nowMs) == nowMs - lock.createdAtMs


LockInit ==
    /\ now = 0
    /\ createAtForm \in {"numeric", "date"}
    \* the hub folder is empty of locks, or holds the lock of a crashed run
    /\ hubLock \in {NoLock, [fileId |-> 1, createdAtMs |-> 0, holder |-> "crashed"]}
    /\ nextFileId = 2
    /\ hubIdentity \in BOOLEAN
    \* the run that left a lock had resolved the hub identity before
    /\ hubLock # NoLock => hubIdentity
    /\ localIdentity \in [Runs -> BOOLEAN]
    /\ pc = [r \in Runs |-> "idle"]
    /\ lockSeen = [r \in Runs |-> NoLock]
    /\ startedAt = [r \in Runs |-> 0]
    /\ mutations = [r \in Runs |-> {}]

\* time passes between any two requests
Tick ==
    /\ now < MaxTicks * TickMs
    /\ now' = now + TickMs
    /\ UNCHANGED <<createAtForm, hubLock, nextFileId, hubIdentity, localIdentity,
                   pc, lockSeen, startedAt, mutations>>
    /\ UNCHANGED runVars
    /\ UNCHANGED <<lifeVars, partVars>>

\* sync() is called
StartSync(r) ==
    /\ pc[r] = "idle"
    /\ pc' = [pc EXCEPT ![r] = "initializeRemotes"]
    /\ startedAt' = [startedAt EXCEPT ![r] = now]
    /\ UNCHANGED <<now, createAtForm, hubLock, nextFileId, hubIdentity,
                   localIdentity, lockSeen, mutations>>
    /\ UNCHANGED runVars
    /\ UNCHANGED <<lifeVars, partVars>>

\* initializeRemotes: getLocalInstanceId and getCloudInstanceId read the
\* identity objects and create the ones that do not exist
initializeRemotes(r) ==
    /\ pc[r] = "initializeRemotes"
    /\ localIdentity' = [localIdentity EXCEPT ![r] = TRUE]
    /\ hubIdentity' = TRUE
    /\ mutations' = [mutations EXCEPT ![r] =
            @ \cup (IF localIdentity[r] THEN {} ELSE {"local:instance-id"})
              \cup (IF hubIdentity THEN {} ELSE {"hub:instance-id"})]
    /\ pc' = [pc EXCEPT ![r] = "loadIndex"]
    /\ UNCHANGED <<now, createAtForm, hubLock, nextFileId, lockSeen,
                   startedAt>>
    /\ UNCHANGED runVars
    /\ UNCHANGED <<lifeVars, partVars>>

\* cloudIndexManager.load() followed by setInstanceId(), which ends in
\* save(): the old index object is deleted and the document uploaded again
setInstanceId(r) ==
    /\ pc[r] = "loadIndex"
    /\ mutations' = [mutations EXCEPT ![r] = @ \cup {"hub:cloud-index-v2.json"}]
    /\ pc' = [pc EXCEPT ![r] = "acquireLock"]
    /\ UNCHANGED <<now, createAtForm, hubLock, nextFileId, hubIdentity,
                   localIdentity, lockSeen, startedAt>>
    /\ UNCHANGED runVars
    /\ UNCHANGED <<lifeVars, partVars>>

\* acquireLock, first request: listFiles, find sync.lock, and the age check
acquireLockCheck(r) ==
    /\ pc[r] = "acquireLock"
    /\ lockSeen' = [lockSeen EXCEPT ![r] = hubLock]
    /\ pc' = [pc EXCEPT ![r] =
            IF hubLock = NoLock THEN "createLock"
            ELSE IF LessThan(lockAge(hubLock, now), Num(fiveMinutesInMs))
                 THEN "lockHeld"
                 ELSE "removeStaleLock"]
    /\ UNCHANGED <<now, createAtForm, hubLock, nextFileId, hubIdentity,
                   localIdentity, startedAt, mutations>>
    /\ UNCHANGED runVars
    /\ UNCHANGED <<lifeVars, partVars>>

\* client.deleteFiles([fileId]): trashes the object with that id, if it is
\* still there
deleteFiles(lock, fileId) ==
    IF lock.fileId = fileId THEN NoLock ELSE lock

\* acquireLock, second request: deleteFiles([lockFile.fileId])
acquireLockRemoveStale(r) ==
    /\ pc[r] = "removeStaleLock"
    /\ hubLock' = deleteFiles(hubLock, lockSeen[r].fileId)
    /\ mutations' = [mutations EXCEPT ![r] = @ \cup {"hub:sync.lock"}]
    /\ pc' = [pc EXCEPT ![r] = "createLock"]
    /\ UNCHANGED <<now, createAtForm, nextFileId, hubIdentity, localIdentity,
                   lockSeen, startedAt>>
    /\ UNCHANGED runVars
    /\ UNCHANGED <<lifeVars, partVars>>

\* acquireLock, last request: uploadSingle(sync.lock, duplicateStrategy 2)
\* replaces whatever object carries the name
acquireLockCreate(r) ==
    /\ pc[r] = "createLock"
    /\ hubLock' = [fileId |-> nextFileId, createdAtMs |-> now, holder |-> r]
    /\ nextFileId' = nextFileId + 1
    /\ mutations' = [mutations EXCEPT ![r] = @ \cup {"hub:sync.lock"}]
    /\ pc' = [pc EXCEPT ![r] = "locked"]
    /\ UNCHANGED <<now, createAtForm, hubIdentity, localIdentity, lockSeen,
                   startedAt>>
    /\ UNCHANGED runVars
    /\ UNCHANGED <<lifeVars, partVars>>

\* the body of the inner try: histories are loaded, the targets reconciled,
\* the histories stamped and persisted
reconcile(r) ==
    /\ pc[r] = "locked"
    /\ mutations' = [mutations EXCEPT ![r] =
            @ \cup {"hub:cloud-index-v2.json", "hub:sync-history.json",
                    "local:sync-history.json"}]
    /\ pc' = [pc EXCEPT ![r] = "releaseLock"]
    /\ UNCHANGED <<now, createAtForm, hubLock, nextFileId, hubIdentity,
                   localIdentity, lockSeen, startedAt>>
    /\ UNCHANGED runVars
    /\ UNCHANGED <<lifeVars, partVars>>

\* releaseLock, first request: listFiles and find sync.lock
releaseLockCheck(r) ==
    /\ pc[r] = "releaseLock"
    /\ lockSeen' = [lockSeen EXCEPT ![r] = hubLock]
    /\ pc' = [pc EXCEPT ![r] = IF hubLock = NoLock THEN "done" ELSE "removeLock"]
    /\ UNCHANGED <<now, createAtForm, hubLock, nextFileId, hubIdentity,
                   localIdentity, startedAt, mutations>>
    /\ UNCHANGED runVars
    /\ UNCHANGED <<lifeVars, partVars>>

\* releaseLock, second request: deleteFiles([lockFile.fileId])
releaseLockRemove(r) ==
    /\ pc[r] = "removeLock"
    /\ hubLock' = deleteFiles(hubLock, lockSeen[r].fileId)
    /\ mutations' = [mutations EXCEPT ![r] = @ \cup {"hub:sync.lock"}]
    /\ pc' = [pc EXCEPT ![r] = "done"]
    /\ UNCHANGED <<now, createAtForm, nextFileId, hubIdentity, localIdentity,
                   lockSeen, startedAt>>
    /\ UNCHANGED runVars
    /\ UNCHANGED <<lifeVars, partVars>>

\* a run is between a successful acquireLock and the end of its releaseLock
Holding(r) == pc[r] \in {"locked", "releaseLock", "removeLock"}

Elapsed(r) == now - startedAt[r]

LockNext ==
    \/ Tick
    \/ \E r \in Runs : StartSync(r)
    \/ \E r \in Runs : initializeRemotes(r)
    \/ \E r \in Runs : setInstanceId(r)
    \/ \E r \in Runs : acquireLockCheck(r)
    \/ \E r \in Runs : acquireLockRemoveStale(r)
    \/ \E r \in Runs : acquireLockCreate(r)
    \/ \E r \in Runs : reconcile(r)
    \/ \E r \in Runs : releaseLockCheck(r)
    \/ \E r \in Runs : releaseLockRemove(r)

--------------------------------------------------------------------------
(* Paths, files, index entries *)

\* a path is the sequence of its segments; one target directory "t" with a
\* file directly inside it and a file one directory deeper
Root  == <<"t">>
FileA == <<"t", "a">>
DirD  == <<"t", "d">>
FileB == <<"t", "d", "b">>
Files == {FileA, FileB}
Dirs  == {DirD}

FileTs == 1 .. MaxFileTs
SyncTs == 0 .. MaxSyncTs
\* a third endpoint never synced with this one, or did so after every sync
\* of the two endpoints of the run
OtherSyncTs == {0, MaxSyncTs + 1}

\* a local file or a FileInfo; NoFile stands for null
NoFile == [updated |-> 0, body |-> "none"]
\* an entry of the index (CloudFileInfo); NoEntry stands for a missing key
NoEntry == [updated |-> 0]
NoBody == "none"
EmptyFiles == [p \in Files |-> NoEntry]

Parent(p) == SubSeq(p, 1, Len(p) - 1)

\* filePath.startsWith(basePath + "/")
StartsWith(p, base) ==
    /\ Len(p) > Len(base)
    /\ SubSeq(p, 1, Len(base)) = base

\* filePath.substring(basePath.length + 1).split("/")
pathParts(p, base) == SubSeq(p, Len(base) + 1, Len(p))

--------------------------------------------------------------------------
(* SyncHistory *)

LocalId == "local"
CloudId == "cloud"
OtherId == "other"

\* getLastSyncWithRemote answering with the endpoint's latest sync with
\* anyone instead of the pairwise time
getLastSyncWithAnyone(history, instanceId) ==
    IF DOMAIN history = {} THEN 0
    ELSE CHOOSE m \in {history[k] : k \in DOMAIN history} :
            \A k \in DOMAIN history : history[k] <= m

\* SyncHistory.getLastSyncWithRemote: remote.syncHistory.get(id) || 0
getLastSyncWithRemote(history, instanceId) ==
    IF instanceId \in DOMAIN history THEN history[instanceId] ELSE 0

\* SyncHistory.getMostRecentSyncTime: Math.max over the values, 0 if none
getMostRecentSyncTime(history) ==
    IF DOMAIN history = {} THEN 0
    ELSE CHOOSE m \in {history[k] : k \in DOMAIN history} :
            \A k \in DOMAIN history : history[k] <= m

--------------------------------------------------------------------------
(* Sync targets *)

\* the options of a SyncTarget; trackConflicts keeps "undefined" apart
\* from false because syncFile tests trackConflicts !== false
TargetOptions ==
    { [avoidDeletions |-> FALSE, deleteFoldersOnly |-> FALSE,
       onlyIfMissing |-> FALSE, trackConflicts |-> "true"],
      [avoidDeletions |-> FALSE, deleteFoldersOnly |-> FALSE,
       onlyIfMissing |-> FALSE, trackConflicts |-> "undefined"],
      [avoidDeletions |-> FALSE, deleteFoldersOnly |-> FALSE,
       onlyIfMissing |-> FALSE, trackConflicts |-> "false"],
      [avoidDeletions |-> FALSE, deleteFoldersOnly |-> TRUE,
       onlyIfMissing |-> FALSE, trackConflicts |-> "undefined"],
      [avoidDeletions |-> TRUE, deleteFoldersOnly |-> FALSE,
       onlyIfMissing |-> FALSE, trackConflicts |-> "undefined"],
      [avoidDeletions |-> TRUE, deleteFoldersOnly |-> FALSE,
       onlyIfMissing |-> TRUE, trackConflicts |-> "undefined"] }

Strategies == {"keepBoth", "keepNewer", "keepLocal", "keepRemote"}

\* shouldAvoidDeletion(path, target, isDir)
shouldAvoidDeletion(opts, isDir) ==
    IF opts.avoidDeletions THEN TRUE
    ELSE IF opts.deleteFoldersOnly /\ ~isDir THEN TRUE
    ELSE FALSE

--------------------------------------------------------------------------
(* ConflictHandler *)

\* detectConflict with the modification tests made inclusive
detectConflictInclusive(localTimestamp, cloudTimestamp, lHistory, cHistory) ==
    LET localLastSync == getLastSyncWithRemote(lHistory, CloudId)
        cloudLastSync == getLastSyncWithRemote(cHistory, LocalId)
    IN  IF localLastSync = 0 /\ cloudLastSync = 0 THEN FALSE
        ELSE IF localTimestamp = cloudTimestamp THEN FALSE
        ELSE localTimestamp >= localLastSync /\ cloudTimestamp >= cloudLastSync

\* ConflictHandler.detectConflict
detectConflict(localTimestamp, cloudTimestamp, lHistory, cHistory) ==
    LET localLastSync == getLastSyncWithRemote(lHistory, CloudId)
        cloudLastSync == getLastSyncWithRemote(cHistory, LocalId)
    IN  IF localLastSync = 0 /\ cloudLastSync = 0 THEN FALSE
        ELSE IF localTimestamp = cloudTimestamp THEN FALSE
        ELSE LET localModified == localTimestamp > localLastSync
                 cloudModified == cloudTimestamp > cloudLastSync
             IN  IF localModified /\ cloudModified THEN TRUE ELSE FALSE

\* handleConflictWithStrategy skipping the sync under keepRemote too
handleConflictWithStrategySkipRemote(strategy) ==
    strategy \notin {"keepLocal", "keepRemote"}

\* handleConflictWithStrategy letting the sync continue under every strategy
handleConflictWithStrategyAlwaysSync(strategy) == TRUE

\* the return value of ConflictHandler.handleConflictWithStrategy
handleConflictWithStrategy(strategy) ==
    CASE strategy = "keepNewer"  -> TRUE
      [] strategy = "keepLocal"  -> FALSE
      [] strategy = "keepRemote" -> TRUE
      [] strategy = "keepBoth"   -> TRUE
      [] OTHER                   -> TRUE

Min(a, b) == IF a < b THEN a ELSE b

\* handleConflict naming the copy after the older timestamp and a serial
\* number, so that a repeated call writes a new object
handleConflictSerial(copies, path, localTimestamp, cloudTimestamp, localBody) ==
    LET olderTimestamp == Min(localTimestamp, cloudTimestamp)
        isLocalOlder == localTimestamp < cloudTimestamp
    IN  IF isLocalOlder
        THEN copies \cup {[path |-> path,
                           stamp |-> olderTimestamp * 10 + Cardinality(copies),
                           body |-> localBody]}
        ELSE copies

\* ConflictHandler.handleConflict: the conflict copies after the call. The
\* name of a copy is derived from the path and the older timestamp; a copy
\* is written (from the local file) only when the local side is the older
handleConflict(copies, path, localTimestamp, cloudTimestamp, localBody) ==
    LET olderTimestamp == Min(localTimestamp, cloudTimestamp)
        isLocalOlder == localTimestamp < cloudTimestamp
    IN  IF isLocalOlder
        THEN {c \in copies : ~(c.path = path /\ c.stamp = olderTimestamp)}
             \cup {[path |-> path, stamp |-> olderTimestamp, body |-> localBody]}
        ELSE copies

--------------------------------------------------------------------------
(* CloudIndexManager *)

\* createEmptyIndex
createEmptyIndex == [loaded |-> TRUE, files |-> EmptyFiles]

\* load(): the hub document, or an empty one when the index object is
\* missing, cannot be fetched or parsed, or carries another version
load(hubDoc, outcome) ==
    IF outcome = "ok" THEN [loaded |-> TRUE, files |-> hubDoc]
    ELSE createEmptyIndex

\* updateFile: index.files[path] = fileInfo (save follows)
updateFile(index, path, fileInfo) ==
    [index EXCEPT !.files[path] = fileInfo]

\* removeFile that leaves the entry in place
removeFileKeepsEntry(index, path) == index

\* removeFile: delete index.files[path] (save follows if it was there)
removeFile(index, path) ==
    IF index.files[path] # NoEntry
    THEN [index EXCEPT !.files[path] = NoEntry]
    ELSE index

\* getAllFiles(): new Map(Object.entries(index.files))
getAllFiles(index) ==
    [p \in {q \in Files : index.files[q] # NoEntry} |-> index.files[p]]

--------------------------------------------------------------------------
(* StorageItem and the directory scan *)

\* a child of a StorageItem; NullItem stands for null
NullItem == [path |-> <<>>, isDir |-> FALSE, updated |-> 0]

\* SyncUtils.getLocalDirFilesRecursively(path): the children of the local
\* directory (files and directories, as readDir lists them)
getLocalDirFilesRecursively(path, files, dirs) ==
    {[path |-> p, isDir |-> FALSE, updated |-> files[p].updated] :
        p \in {q \in Files : Parent(q) = path /\ files[q] # NoFile}}
    \cup {[path |-> d, isDir |-> TRUE, updated |-> 0] :
        d \in {e \in dirs : Parent(e) = path}}

\* buildCloudItemFromIndex(basePath, cloudFiles): only entries whose path
\* relative to basePath has a single part are added
buildCloudItemFromIndex(basePath, cloudFiles) ==
    {[path |-> p, isDir |-> FALSE, updated |-> cloudFiles[p].updated] :
        p \in {q \in Files : /\ cloudFiles[q] # NoEntry
                             /\ StartsWith(q, basePath)
                             /\ Len(pathParts(q, basePath)) = 1}}

\* StorageItem.joinItems: children keyed by path, item2's entry wins
joinItems(item1, item2) ==
    {c \in item1 : \A c2 \in item2 : c2.path # c.path} \cup item2

\* getFilesMap().get(path)?.item || null
getItem(item, path) ==
    IF \E c \in item : c.path = path
    THEN CHOOSE c \in item : c.path = path
    ELSE NullItem

--------------------------------------------------------------------------
(* SyncManager.syncFile and handleDeletion *)

\* shouldDelete without its last conjunct: a sync with a third endpoint
\* after the pairwise one is ignored
shouldDeleteIgnoringOthers(commonSync, existingTimestamp, mostRecentSync) ==
    /\ commonSync > 0
    /\ commonSync > existingTimestamp

\* the deletion predicate of handleDeletion
shouldDelete(commonSync, existingTimestamp, mostRecentSync) ==
    /\ commonSync > 0
    /\ commonSync > existingTimestamp
    /\ commonSync >= mostRecentSync

\* handleDeletion: the operation it performs for a path missing on one side
handleDeletion(localFile, cloudFile, lHistory, cHistory, opts) ==
    LET missingLocal == localFile = NullItem
        existingTimestamp ==
            IF localFile # NullItem /\ localFile.updated # 0
            THEN localFile.updated
            ELSE IF cloudFile # NullItem /\ cloudFile.updated # 0
                 THEN cloudFile.updated
                 ELSE 0
        commonSync ==
            IF missingLocal THEN getLastSyncWithRemote(cHistory, LocalId)
            ELSE getLastSyncWithRemote(lHistory, CloudId)
        mostRecentSync ==
            IF missingLocal THEN getMostRecentSyncTime(cHistory)
            ELSE getMostRecentSyncTime(lHistory)
        isDir == localFile.isDir \/ cloudFile.isDir
        avoidDeletion == shouldAvoidDeletion(opts, isDir)
    IN  IF shouldDelete(commonSync, existingTimestamp, mostRecentSync)
           /\ ~avoidDeletion
        THEN IF missingLocal /\ cloudFile # NullItem THEN "deleteCloud"
             ELSE IF ~missingLocal /\ localFile # NullItem THEN "deleteLocal"
             ELSE "none"
        ELSE IF missingLocal /\ cloudFile # NullItem THEN "download"
             ELSE IF ~missingLocal /\ localFile # NullItem THEN "upload"
             ELSE "none"

NoOp == [conflict |-> FALSE, action |-> "none"]

\* syncFile without the equal-timestamp return and with the upload chosen
\* when the local timestamp is not the smaller one
syncFileUploadOnTie(localFile, cloudFile, opts, strategy, lHistory, cHistory) ==
    LET localTimestamp == localFile.updated
        cloudTimestamp == cloudFile.updated
        both == localFile # NullItem /\ cloudFile # NullItem
        shouldTrackConflicts == opts.trackConflicts # "false"
        conflict ==
            /\ shouldTrackConflicts
            /\ both
            /\ detectConflict(localTimestamp, cloudTimestamp, lHistory, cHistory)
    IN  IF localFile = NullItem /\ cloudFile = NullItem THEN NoOp
        ELSE IF opts.onlyIfMissing /\ both THEN NoOp
        ELSE IF conflict /\ ~handleConflictWithStrategy(strategy)
             THEN [conflict |-> TRUE, action |-> "none"]
        ELSE IF ~both
             THEN [conflict |-> conflict,
                   action |-> handleDeletion(localFile, cloudFile,
                                             lHistory, cHistory, opts)]
        ELSE IF localTimestamp >= cloudTimestamp
             THEN [conflict |-> conflict, action |-> "upload"]
        ELSE [conflict |-> conflict, action |-> "download"]

\* syncFile forcing the hub version to win a conflict under keepRemote
syncFileRemoteWins(localFile, cloudFile, opts, strategy, lHistory, cHistory) ==
    LET localTimestamp == localFile.updated
        cloudTimestamp == cloudFile.updated
        both == localFile # NullItem /\ cloudFile # NullItem
        conflict ==
            /\ opts.trackConflicts # "false"
            /\ both
            /\ detectConflict(localTimestamp, cloudTimestamp, lHistory, cHistory)
    IN  IF localFile = NullItem /\ cloudFile = NullItem THEN NoOp
        ELSE IF opts.onlyIfMissing /\ both THEN NoOp
        ELSE IF both /\ localTimestamp = cloudTimestamp THEN NoOp
        ELSE IF conflict /\ ~handleConflictWithStrategy(strategy)
             THEN [conflict |-> TRUE, action |-> "none"]
        ELSE IF conflict /\ strategy = "keepRemote"
             THEN [conflict |-> TRUE, action |-> "download"]
        ELSE IF ~both
             THEN [conflict |-> conflict,
                   action |-> handleDeletion(localFile, cloudFile,
                                             lHistory, cHistory, opts)]
        ELSE IF localTimestamp > cloudTimestamp
             THEN [conflict |-> conflict, action |-> "upload"]
        ELSE IF cloudTimestamp > localTimestamp
             THEN [conflict |-> conflict, action |-> "download"]
        ELSE [conflict |-> conflict, action |-> "none"]

\* syncFile: whether a conflict was detected, and the operation performed
syncFile(localFile, cloudFile, opts, strategy, lHistory, cHistory) ==
    LET localTimestamp == localFile.updated
        cloudTimestamp == cloudFile.updated
        both == localFile # NullItem /\ cloudFile # NullItem
        shouldTrackConflicts == opts.trackConflicts # "false"
        conflict ==
            /\ shouldTrackConflicts
            /\ both
            /\ detectConflict(localTimestamp, cloudTimestamp, lHistory, cHistory)
    IN  IF localFile = NullItem /\ cloudFile = NullItem THEN NoOp
        ELSE IF opts.onlyIfMissing /\ both THEN NoOp
        ELSE IF both /\ localTimestamp = cloudTimestamp THEN NoOp
        ELSE IF conflict /\ ~handleConflictWithStrategy(strategy)
             THEN [conflict |-> TRUE, action |-> "none"]
        ELSE IF ~both
             THEN [conflict |-> conflict,
                   action |-> handleDeletion(localFile, cloudFile,
                                             lHistory, cHistory, opts)]
        ELSE IF localTimestamp > cloudTimestamp
             THEN [conflict |-> conflict, action |-> "upload"]
        ELSE IF cloudTimestamp > localTimestamp
             THEN [conflict |-> conflict, action |-> "download"]
        ELSE [conflict |-> conflict, action |-> "none"]

--------------------------------------------------------------------------
(* One run of sync() over one target *)

\* the timestamp a finishing run stamps into both histories: later than
\* every earlier sync time
RunStamp == MaxSyncTs + 2

RunInit ==
    /\ phase = "start"
    /\ target \in TargetOptions
    /\ conflictStrategy \in Strategies
    /\ localFiles \in [Files -> {NoFile} \cup [updated : FileTs, body : {"L"}]]
    /\ localFiles[FileB].updated <= 1
    /\ localDirs \in SUBSET Dirs
    /\ \A p \in Files : localFiles[p] # NoFile => (Parent(p) \in Dirs => Parent(p) \in localDirs)
    /\ hubIndex \in [Files -> {NoEntry} \cup [updated : FileTs]]
    /\ hubIndex[FileB].updated <= 1
    /\ hubObjects = [p \in Files |-> IF hubIndex[p] = NoEntry THEN NoBody ELSE "C"]
    /\ currentIndex = [loaded |-> FALSE, files |-> EmptyFiles]
    /\ indexLoadFailed = FALSE
    /\ \E c \in SyncTs, o \in OtherSyncTs :
          localHistory = (CloudId :> c) @@ (OtherId :> o)
    /\ \E c \in SyncTs, o \in OtherSyncTs :
          cloudHistory = (LocalId :> c) @@ (OtherId :> o)
    /\ conflictCopies = {}
    /\ pendingDirs = {}
    /\ pendingFiles = {}
    /\ visited = {}
    /\ ops = [p \in Files |-> <<>>]
    /\ conflictDetected = FALSE
    /\ syncErrors = <<>>
    /\ atStart = [localFiles |-> localFiles, localDirs |-> localDirs,
                  hubIndex |-> hubIndex, hubObjects |-> hubObjects,
                  localHistory |-> localHistory, cloudHistory |-> cloudHistory]

\* sync() up to the first syncDirectory call: the index is loaded (an empty
\* one substituted on failure) and saved back by setInstanceId, the lock is
\* taken, the histories are loaded, syncDirectory(target.path) is launched
startSync(outcome) ==
    /\ phase = "start"
    /\ currentIndex' = load(hubIndex, outcome)
    /\ indexLoadFailed' = (outcome # "ok")
    /\ hubIndex' = currentIndex'.files
    /\ pendingDirs' = {Root}
    /\ phase' = "reconciling"
    /\ UNCHANGED <<atStart, target, conflictStrategy, localFiles, localDirs,
                   conflictCopies, hubObjects, localHistory, cloudHistory,
                   pendingFiles, visited, ops, conflictDetected, syncErrors>>
    /\ UNCHANGED lockVars
    /\ UNCHANGED <<lifeVars, partVars>>

\* syncDirectory(path): scan the local directory, derive the cloud side
\* from the index, join, and launch syncDirectory for every directory and
\* syncFile for every file of the joined item
syncDirectory(path) ==
    /\ phase = "reconciling"
    /\ path \in pendingDirs
    /\ LET localItem == getLocalDirFilesRecursively(path, localFiles, localDirs)
           cloudItem == buildCloudItemFromIndex(path, currentIndex.files)
           combinedItem == joinItems(localItem, cloudItem)
       IN  /\ pendingDirs' = (pendingDirs \ {path})
                \cup {c.path : c \in {f \in combinedItem : f.isDir}}
           /\ pendingFiles' = pendingFiles
                \cup {[path |-> c.path,
                       localFile |-> getItem(localItem, c.path),
                       cloudFile |-> getItem(cloudItem, c.path)] :
                      c \in {f \in combinedItem : ~f.isDir}}
    /\ UNCHANGED <<phase, atStart, target, conflictStrategy, localFiles, localDirs,
                   conflictCopies, hubObjects, hubIndex, currentIndex,
                   indexLoadFailed, localHistory, cloudHistory, visited, ops,
                   conflictDetected, syncErrors>>
    /\ UNCHANGED lockVars
    /\ UNCHANGED <<lifeVars, partVars>>

\* one launched syncFile call, with the transfer or deletion it performs:
\*   upload      - uploadFileToCloud: the hub object is replaced by the local
\*                 file, updateFile records it in the index, save persists
\*   download    - downloadFileFromCloud: the local file is written with the
\*                 index timestamp, its parent directory is created
\*   deleteCloud - deleteCloudFile, then removeFile and save
\*   deleteLocal - deleteLocalFile
syncFileCall(job) ==
    /\ phase = "reconciling"
    /\ job \in pendingFiles
    /\ LET p == job.path
           d == syncFile(job.localFile, job.cloudFile, target,
                         conflictStrategy, localHistory, cloudHistory)
           index == CASE d.action = "upload" ->
                            updateFile(currentIndex, p,
                                       [updated |-> job.localFile.updated])
                      [] d.action = "deleteCloud" -> removeFile(currentIndex, p)
                      [] OTHER -> currentIndex
       IN  /\ pendingFiles' = pendingFiles \ {job}
           /\ visited' = visited \cup {job}
           /\ ops' = [ops EXCEPT ![p] =
                        IF d.action = "none" THEN @ ELSE Append(@, d.action)]
           /\ conflictDetected' = (conflictDetected \/ d.conflict)
           /\ conflictCopies' =
                IF d.conflict /\ conflictStrategy = "keepBoth"
                THEN handleConflict(conflictCopies, p, job.localFile.updated,
                                    job.cloudFile.updated, localFiles[p].body)
                ELSE conflictCopies
           /\ localFiles' =
                CASE d.action = "download" ->
                        [localFiles EXCEPT ![p] =
                            [updated |-> job.cloudFile.updated,
                             body |-> hubObjects[p]]]
                  [] d.action = "deleteLocal" ->
                        [localFiles EXCEPT ![p] = NoFile]
                  [] OTHER -> localFiles
           /\ localDirs' =
                IF d.action = "download"
                THEN localDirs \cup ({Parent(p)} \cap Dirs)
                ELSE localDirs
           /\ hubObjects' =
                CASE d.action = "upload" ->
                        [hubObjects EXCEPT ![p] = localFiles[p].body]
                  [] d.action = "deleteCloud" ->
                        [hubObjects EXCEPT ![p] = NoBody]
                  [] OTHER -> hubObjects
           /\ currentIndex' = index
           /\ hubIndex' = IF index # currentIndex THEN index.files ELSE hubIndex
    /\ UNCHANGED <<phase, atStart, target, conflictStrategy, indexLoadFailed,
                   localHistory, cloudHistory, pendingDirs, syncErrors>>
    /\ UNCHANGED lockVars
    /\ UNCHANGED <<lifeVars, partVars>>

\* the end of sync(): every launched call has settled, both histories are
\* stamped and persisted, the lock is released
finishSync ==
    /\ phase = "reconciling"
    /\ pendingDirs = {}
    /\ pendingFiles = {}
    /\ targetsLeft = <<>>
    /\ localHistory' = [localHistory EXCEPT ![CloudId] = RunStamp]
    /\ cloudHistory' = [cloudHistory EXCEPT ![LocalId] = RunStamp]
    /\ phase' = "done"
    /\ UNCHANGED <<atStart, target, conflictStrategy, localFiles, localDirs,
                   conflictCopies, hubObjects, hubIndex, currentIndex,
                   indexLoadFailed, pendingDirs, pendingFiles, visited, ops,
                   conflictDetected, syncErrors>>
    /\ UNCHANGED lockVars
    /\ UNCHANGED <<lifeVars, partVars>>

\* a rejected call that takes the calls launched beside it down with it
allRejected(pending, job) == {}

\* Promise.allSettled in syncDirectory: a call that settles, fulfilled or
\* rejected, leaves the calls launched beside it pending
allSettled(pending, job) == pending \ {job}

\* one launched syncFile call whose transfer or deletion throws, before the
\* first request takes effect ("before"), between the change of the hub
\* object and the save of the index ("partial"), or, for an upload, in
\* uploadSingle after uploadLocalFileToCloud has deleted the object stored
\* under the file's name ("deleted"). The wrapper pushes a SyncError and
\* rethrows; syncDirectory pushes another one for the rejected promise once
\* all calls have settled
syncFileFails(job, stage) ==
    /\ phase = "reconciling"
    /\ job \in pendingFiles
    /\ LET p == job.path
           d == syncFile(job.localFile, job.cloudFile, target,
                         conflictStrategy, localHistory, cloudHistory)
           partial == stage = "partial"
           operation == CASE d.action = "upload" -> "upload"
                          [] d.action = "download" -> "download"
                          [] OTHER -> "delete"
       IN  /\ d.action # "none"
           /\ partial => d.action \in {"upload", "deleteCloud"}
           /\ stage = "deleted" => (d.action = "upload" /\ hubObjects[p] # NoBody)
           /\ pendingFiles' = allSettled(pendingFiles, job)
           /\ visited' = visited \cup {job}
           /\ syncErrors' = syncErrors
                  \o <<[path |-> p, operation |-> operation],
                       [path |-> p, operation |-> "upload"]>>
           /\ conflictDetected' = (conflictDetected \/ d.conflict)
           /\ conflictCopies' =
                IF d.conflict /\ conflictStrategy = "keepBoth"
                THEN handleConflict(conflictCopies, p, job.localFile.updated,
                                    job.cloudFile.updated, localFiles[p].body)
                ELSE conflictCopies
           /\ hubObjects' =
                CASE partial /\ d.action = "upload" ->
                        [hubObjects EXCEPT ![p] = localFiles[p].body]
                  [] partial /\ d.action = "deleteCloud" ->
                        [hubObjects EXCEPT ![p] = NoBody]
                  [] stage = "deleted" ->
                        [hubObjects EXCEPT ![p] = NoBody]
                  [] OTHER -> hubObjects
           /\ currentIndex' =
                CASE partial /\ d.action = "upload" ->
                        updateFile(currentIndex, p,
                                   [updated |-> job.localFile.updated])
                  [] partial /\ d.action = "deleteCloud" ->
                        removeFile(currentIndex, p)
                  [] OTHER -> currentIndex
    /\ UNCHANGED <<phase, atStart, target, conflictStrategy, localFiles,
                   localDirs, hubIndex, indexLoadFailed, localHistory,
                   cloudHistory, pendingDirs, ops>>
    /\ UNCHANGED lockVars
    /\ UNCHANGED <<lifeVars, partVars>>

FaultyNext ==
    \/ \E outcome \in {"ok", "fetchError", "parseError", "versionMismatch"} :
          startSync(outcome)
    \/ \E path \in Dirs \cup {Root} : syncDirectory(path)
    \/ \E job \in pendingFiles : syncFileCall(job)
    \/ \E job \in pendingFiles, stage \in {"before", "partial", "deleted"} :
          syncFileFails(job, stage)
    \/ finishSync

\* the target that encloses the others ("data") and the targets of
\* getDefaultSyncTargets that lie inside it and make files deletion-averse
\* ("data/plugins" and the like, "data/snippets" and "data/storage/petal")
DataTarget ==
    [avoidDeletions |-> FALSE, deleteFoldersOnly |-> FALSE,
     onlyIfMissing |-> FALSE, trackConflicts |-> "true"]
NestedTargets ==
    { [avoidDeletions |-> FALSE, deleteFoldersOnly |-> TRUE,
       onlyIfMissing |-> FALSE, trackConflicts |-> "undefined"],
      [avoidDeletions |-> TRUE, deleteFoldersOnly |-> FALSE,
       onlyIfMissing |-> TRUE, trackConflicts |-> "undefined"] }

\* getDefaultSyncTargets(): the enclosing target first, a target inside
\* it later
getDefaultSyncTargets ==
    {<<[path |-> Root, options |-> DataTarget],
       [path |-> DirD, options |-> t]>> : t \in NestedTargets}

\* sync(): the next iteration of the loop over the targets, once the
\* syncDirectory call of the previous target has returned
nextTarget ==
    /\ phase = "reconciling"
    /\ pendingDirs = {}
    /\ pendingFiles = {}
    /\ targetsLeft # <<>>
    /\ target' = Head(targetsLeft).options
    /\ pendingDirs' = {Head(targetsLeft).path}
    /\ targetsLeft' = Tail(targetsLeft)
    /\ UNCHANGED <<phase, atStart, conflictStrategy, localFiles, localDirs,
                   conflictCopies, hubObjects, hubIndex, currentIndex,
                   indexLoadFailed, localHistory, cloudHistory, pendingFiles,
                   visited, ops, conflictDetected, syncErrors>>
    /\ UNCHANGED <<moreVars, lockVars, lifeVars, indexVars, uploadVars, joinVars,
                   reportVars>>

TargetsNext ==
    \/ \E outcome \in {"ok", "fetchError", "parseError", "versionMismatch"} :
          startSync(outcome)
    \/ \E path \in Dirs \cup {Root} : syncDirectory(path)
    \/ \E job \in pendingFiles : syncFileCall(job)
    \/ nextTarget
    \/ finishSync

RunNext ==
    \/ \E outcome \in {"ok", "fetchError", "parseError", "versionMismatch"} :
          startSync(outcome)
    \/ \E path \in Dirs \cup {Root} : syncDirectory(path)
    \/ \E job \in pendingFiles : syncFileCall(job)
    \/ finishSync

--------------------------------------------------------------------------
(* Successive runs of sync(), step by step, with requests that may fail *)

\* sync() taking the lock only after the targets have been reconciled
syncStepsLockLate ==
    <<"initializeRemotes", "setInstanceId", "loadSyncHistories",
      "syncTargets", "acquireLock", "stampHistories",
      "updateSyncHistories", "showMessage", "releaseLock">>

\* the steps of sync() in program order
syncSteps ==
    <<"initializeRemotes", "setInstanceId", "acquireLock",
      "loadSyncHistories", "syncTargets", "stampHistories",
      "updateSyncHistories", "showMessage", "releaseLock">>

\* the steps inside the inner try, whose finally block is releaseLock
guardedSteps ==
    {"loadSyncHistories", "syncTargets", "stampHistories",
     "updateSyncHistories", "showMessage"}

StepIndex(name) == CHOOSE i \in 1 .. Len(syncSteps) : syncSteps[i] = name

\* sync() without the finally block: every exception goes to the catch
onThrowToCatch(name) == "catch"

\* sync() with every step inside the inner try
onThrowToFinally(name) == "releaseLock"

\* where control goes when a step throws: into the finally block of the
\* inner try, or straight to the catch of the outer try
onThrow(name) == IF name \in guardedSteps THEN "releaseLock" ELSE "catch"

Sides == {"local", "cloud"}

\* a sync history as the run uses it: the entry for the other endpoint of
\* the run and the entry for a third endpoint; an absent entry reads 0
NoHistory == [pair |-> 0, other |-> 0]
Histories == [pair : {0, MaxSyncTs}, other : OtherSyncTs]

Outcomes == {"ok", "fail"}

\* SyncUtils.getLocalInstanceId: the persisted id when the read answers 200;
\* otherwise (no file, another status, fetch throws) a generated id, written
\* by setLocalInstanceId, whose exception propagates
getLocalInstanceId(obj, read, write, fresh) ==
    IF read = "ok" /\ obj # 0
    THEN [id |-> obj, obj |-> obj, threw |-> FALSE, generated |-> FALSE]
    ELSE IF write = "ok"
         THEN [id |-> fresh, obj |-> fresh, threw |-> FALSE, generated |-> TRUE]
         ELSE [id |-> 0, obj |-> obj, threw |-> TRUE, generated |-> TRUE]

\* SyncUtils.getCloudInstanceId: the persisted id when the object is listed
\* and downloaded; otherwise (not listed, or any request throws) a generated
\* id, which setCloudInstanceId uploads in place of the old object
getCloudInstanceId(obj, read, write, fresh) ==
    IF read = "ok" /\ obj # 0
    THEN [id |-> obj, obj |-> obj, threw |-> FALSE, generated |-> FALSE]
    ELSE IF write = "ok"
         THEN [id |-> fresh, obj |-> fresh, threw |-> FALSE, generated |-> TRUE]
         ELSE [id |-> 0, obj |-> obj, threw |-> TRUE, generated |-> TRUE]

\* the current step completes
Advance ==
    /\ step' = step + 1
    /\ UNCHANGED <<result, failedAt>>

\* the current step throws
Throw ==
    LET name == syncSteps[step]
    IN  /\ failedAt' = name
        /\ IF onThrow(name) = "releaseLock"
           THEN step' = StepIndex("releaseLock") /\ UNCHANGED result
           ELSE step' = 0 /\ result' = "thrown"

AtStep(name) ==
    /\ result = "running"
    /\ step \in 1 .. Len(syncSteps)
    /\ syncSteps[step] = name

LifeInit ==
    /\ step = 0
    /\ events = <<>>
    /\ result = "none"
    /\ failedAt = "none"
    /\ releaseFailed = FALSE
    /\ hadErrors = FALSE
    \* an endpoint has an identity from an earlier run (id 1 locally, 2 on
    \* the hub), or none yet
    /\ idObjects \in [local : {0, 1}, cloud : {0, 2}]
    /\ remoteIds = [local |-> 0, cloud |-> 0]
    /\ nextInstanceId = 3
    /\ lifeLock \in BOOLEAN
    /\ persisted \in [Sides -> Histories]
    \* endpoints without identity have no history
    /\ idObjects.local = 0 => persisted["local"] = NoHistory
    /\ idObjects.cloud = 0 => persisted["cloud"] = NoHistory
    /\ loaded = [s \in Sides |-> NoHistory]
    /\ saved = [s \in Sides |-> FALSE]
    /\ startPersisted = persisted
    /\ runs = 0

\* sync() is called
callSync ==
    /\ result # "running"
    /\ runs < MaxRuns
    /\ runs' = runs + 1
    /\ result' = "running"
    /\ step' = 1
    /\ events' = <<>>
    /\ failedAt' = "none"
    /\ releaseFailed' = FALSE
    /\ hadErrors' = FALSE
    /\ remoteIds' = [local |-> 0, cloud |-> 0]
    /\ loaded' = [s \in Sides |-> NoHistory]
    /\ saved' = [s \in Sides |-> FALSE]
    /\ startPersisted' = persisted
    /\ UNCHANGED <<idObjects, nextInstanceId, lifeLock, persisted>>
    /\ UNCHANGED <<lockVars, runVars, partVars>>

\* step 1: initializeRemotes resolves the local id, then the hub id
runInitializeRemotes(localRead, localWrite, cloudRead, cloudWrite) ==
    /\ AtStep("initializeRemotes")
    /\ LET l == getLocalInstanceId(idObjects.local, localRead, localWrite,
                                   nextInstanceId)
           fresh == nextInstanceId + (IF l.generated THEN 1 ELSE 0)
           c == getCloudInstanceId(idObjects.cloud, cloudRead, cloudWrite, fresh)
       IN  IF l.threw
           THEN /\ Throw
                /\ nextInstanceId' = fresh
                /\ UNCHANGED <<idObjects, remoteIds>>
           ELSE /\ nextInstanceId' = fresh + (IF c.generated THEN 1 ELSE 0)
                /\ idObjects' = [local |-> l.obj, cloud |-> c.obj]
                /\ IF c.threw
                   THEN Throw /\ UNCHANGED remoteIds
                   ELSE Advance /\ remoteIds' = [local |-> l.id, cloud |-> c.id]
    /\ events' = Append(events, "initializeRemotes")
                 \o (IF idObjects' # idObjects /\ \E sd \in Sides :
                           idObjects[sd] # 0 /\ idObjects'[sd] # idObjects[sd]
                     THEN <<"identityReplaced">> ELSE <<>>)
    /\ UNCHANGED <<releaseFailed, hadErrors, lifeLock, persisted, loaded,
                   saved, startPersisted, runs>>
    /\ UNCHANGED <<lockVars, runVars, partVars>>

\* step 1.5: cloudIndexManager.load(), which never throws, and
\* setInstanceId(), whose save() may
runSetInstanceId(outcome) ==
    /\ AtStep("setInstanceId")
    /\ IF outcome = "ok" THEN Advance ELSE Throw
    /\ events' = Append(events, "setInstanceId")
    /\ UNCHANGED <<releaseFailed, hadErrors, idObjects, remoteIds,
                   nextInstanceId, lifeLock, persisted, loaded, saved,
                   startPersisted, runs>>
    /\ UNCHANGED <<lockVars, runVars, partVars>>

\* step 2: acquireLock. listFiles may throw; a lock whose age tests below
\* the threshold makes it throw; otherwise an existing lock is deleted, the
\* local id is read again for the lock content, and sync.lock is uploaded
runAcquireLock(outcome, localRead, localWrite) ==
    /\ AtStep("acquireLock")
    /\ outcome = "young" => lifeLock
    /\ LET l == getLocalInstanceId(idObjects.local, localRead, localWrite,
                                   nextInstanceId)
           removed == IF lifeLock THEN <<"lock:delete">> ELSE <<>>
       IN  IF outcome = "throws"
           THEN /\ Throw
                /\ events' = Append(events, "acquireLock")
                /\ UNCHANGED <<idObjects, nextInstanceId, lifeLock>>
           ELSE IF outcome = "young"
           THEN /\ Throw
                /\ events' = events \o <<"acquireLock", "lockHeld">>
                /\ UNCHANGED <<idObjects, nextInstanceId, lifeLock>>
           ELSE /\ nextInstanceId' = nextInstanceId + (IF l.generated THEN 1 ELSE 0)
                /\ idObjects' = [idObjects EXCEPT !.local = l.obj]
                /\ IF l.threw
                   THEN /\ Throw
                        /\ lifeLock' = FALSE
                        /\ events' = events \o <<"acquireLock">> \o removed
                   ELSE /\ Advance
                        /\ lifeLock' = TRUE
                        /\ events' = events \o <<"acquireLock">> \o removed
                              \o (IF idObjects.local # 0 /\ l.obj # idObjects.local
                                  THEN <<"identityReplaced">> ELSE <<>>)
                              \o <<"lock:create">>
    /\ UNCHANGED <<releaseFailed, hadErrors, remoteIds, persisted, loaded,
                   saved, startPersisted, runs>>
    /\ UNCHANGED <<lockVars, runVars, partVars>>

\* step 3: loadSyncHistories. Each loader returns an empty Map when its
\* request or the parse fails; neither throws
runLoadSyncHistories(localLoad, cloudLoad) ==
    /\ AtStep("loadSyncHistories")
    /\ loaded' = [local |-> IF localLoad = "ok" THEN persisted["local"] ELSE NoHistory,
                  cloud |-> IF cloudLoad = "ok" THEN persisted["cloud"] ELSE NoHistory]
    /\ Advance
    /\ events' = Append(events, "loadSyncHistories")
    /\ UNCHANGED <<releaseFailed, hadErrors, idObjects, remoteIds,
                   nextInstanceId, lifeLock, persisted, saved, startPersisted,
                   runs>>
    /\ UNCHANGED <<lockVars, runVars, partVars>>

\* step 4: the loop over the targets. A failure inside a target is caught
\* and pushed onto syncErrors; the loop itself does not throw
runSyncTargets(outcome) ==
    /\ AtStep("syncTargets")
    /\ hadErrors' = (outcome = "fail")
    /\ Advance
    /\ events' = Append(events, "syncTargets")
    /\ UNCHANGED <<releaseFailed, idObjects, remoteIds, nextInstanceId,
                   lifeLock, persisted, loaded, saved, startPersisted, runs>>
    /\ UNCHANGED <<lockVars, runVars, partVars>>

\* step 5: both histories get the run's timestamp under the other side's id
runStampHistories ==
    /\ AtStep("stampHistories")
    /\ loaded' = [s \in Sides |-> [loaded[s] EXCEPT !.pair = RunStamp]]
    /\ Advance
    /\ events' = Append(events, "stampHistories")
    /\ UNCHANGED <<releaseFailed, hadErrors, idObjects, remoteIds,
                   nextInstanceId, lifeLock, persisted, saved, startPersisted,
                   runs>>
    /\ UNCHANGED <<lockVars, runVars, partVars>>

\* step 6: updateSyncHistories saves each history whole; Promise.allSettled
\* swallows the failure of either save
runUpdateSyncHistories(localSave, cloudSave) ==
    /\ AtStep("updateSyncHistories")
    /\ persisted' = [local |-> IF localSave = "ok" THEN loaded["local"]
                               ELSE persisted["local"],
                     cloud |-> IF cloudSave = "ok" THEN loaded["cloud"]
                               ELSE persisted["cloud"]]
    /\ saved' = [local |-> localSave = "ok", cloud |-> cloudSave = "ok"]
    /\ Advance
    /\ events' = Append(events, "updateSyncHistories")
    /\ UNCHANGED <<releaseFailed, hadErrors, idObjects, remoteIds,
                   nextInstanceId, lifeLock, loaded, startPersisted, runs>>
    /\ UNCHANGED <<lockVars, runVars, partVars>>

\* the end of the inner try: the result message is shown; the call is the
\* last statement that can throw before the finally block
runShowMessage(outcome) ==
    /\ AtStep("showMessage")
    /\ IF outcome = "ok" THEN Advance ELSE Throw
    /\ events' = Append(events, "showMessage")
    /\ UNCHANGED <<releaseFailed, hadErrors, idObjects, remoteIds,
                   nextInstanceId, lifeLock, persisted, loaded, saved,
                   startPersisted, runs>>
    /\ UNCHANGED <<lockVars, runVars, partVars>>

\* step 7, the finally block: releaseLock deletes the sync.lock it lists and
\* catches its own errors; then sync() returns, or rethrows the exception
\* that was propagating
runReleaseLock(outcome) ==
    /\ AtStep("releaseLock")
    /\ lifeLock' = IF outcome = "ok" THEN FALSE ELSE lifeLock
    /\ releaseFailed' = (outcome # "ok")
    /\ events' = events \o <<"releaseLock">>
                 \o (IF outcome = "ok" /\ lifeLock THEN <<"lock:delete">> ELSE <<>>)
    /\ step' = 0
    /\ result' = IF failedAt = "none" THEN "returned" ELSE "thrown"
    /\ UNCHANGED <<failedAt, hadErrors, idObjects, remoteIds, nextInstanceId,
                   persisted, loaded, saved, startPersisted, runs>>
    /\ UNCHANGED <<lockVars, runVars, partVars>>

LifeNext ==
    \/ callSync
    \/ \E lr \in Outcomes, lw \in Outcomes, cr \in Outcomes, cw \in Outcomes :
          runInitializeRemotes(lr, lw, cr, cw)
    \/ \E o \in Outcomes : runSetInstanceId(o)
    \/ \E o \in {"ok", "young", "throws"}, lr \in Outcomes, lw \in Outcomes :
          runAcquireLock(o, lr, lw)
    \/ \E lo \in Outcomes, co \in Outcomes : runLoadSyncHistories(lo, co)
    \/ \E o \in Outcomes : runSyncTargets(o)
    \/ runStampHistories
    \/ \E ls \in Outcomes, cs \in Outcomes : runUpdateSyncHistories(ls, cs)
    \/ \E o \in Outcomes : runShowMessage(o)
    \/ \E o \in Outcomes : runReleaseLock(o)

--------------------------------------------------------------------------
(* CloudIndexManager under the concurrent calls of sibling reconciliations *)

\* the syncFile calls syncDirectory launches together; each one reaches
\* updateFile or removeFile on its own schedule
Siblings == {"s1", "s2"}

\* no index object in the hub folder
NoIndexObject == [fileId |-> 0, files |-> EmptyFiles]

\* a sibling that is not inside an index call
NoCall == [pc |-> "idle", path |-> <<>>, seen |-> 0, json |-> EmptyFiles]

\* the index as sync() leaves it before the first target: loaded, and saved
\* back by setInstanceId
IndexInit ==
    /\ \E f \in [Files -> {NoEntry} \cup [updated : FileTs]] :
          /\ ixCache = [loaded |-> TRUE, files |-> f]
          /\ ixObject = [fileId |-> 1, files |-> f]
    /\ ixNextId = 2
    /\ ixCall = [s \in Siblings |-> NoCall]
    /\ ixTrail = <<>>
    /\ ixFailed = FALSE

\* the paths of the calls the other siblings are inside
BusyPaths(s) ==
    {ixCall[t].path : t \in {u \in Siblings \ {s} : ixCall[u].pc # "idle"}}

\* updateFile(path, fileInfo) up to the first request of save(): load()
\* answers with the cached document, the entry is set in it
callUpdateFile(s, path, fileInfo) ==
    /\ ixCall[s].pc = "idle"
    /\ Len(ixTrail) < MaxIndexCalls
    /\ path \notin BusyPaths(s)
    /\ ixCache' = updateFile(ixCache, path, fileInfo)
    /\ ixCall' = [ixCall EXCEPT ![s] = [NoCall EXCEPT !.pc = "list",
                                                      !.path = path]]
    /\ ixTrail' = Append(ixTrail, [op |-> "updateFile", path |-> path,
                                   before |-> ixCache.files,
                                   files |-> ixCache'.files])
    /\ UNCHANGED <<ixObject, ixNextId, ixFailed>>
    /\ UNCHANGED <<moreVars, lockVars, runVars, lifeVars, uploadVars, joinVars, reportVars,
                   targetVars>>

\* removeFile(path) up to the first request of save(); it returns at once
\* when the cached document has no entry for the path
callRemoveFile(s, path) ==
    /\ ixCall[s].pc = "idle"
    /\ Len(ixTrail) < MaxIndexCalls
    /\ path \notin BusyPaths(s)
    /\ ixCache' = removeFile(ixCache, path)
    /\ ixCall' = [ixCall EXCEPT ![s] =
                    IF ixCache.files[path] # NoEntry
                    THEN [NoCall EXCEPT !.pc = "list", !.path = path]
                    ELSE NoCall]
    /\ ixTrail' = Append(ixTrail, [op |-> "removeFile", path |-> path,
                                   before |-> ixCache.files,
                                   files |-> ixCache'.files])
    /\ UNCHANGED <<ixObject, ixNextId, ixFailed>>
    /\ UNCHANGED <<moreVars, lockVars, runVars, lifeVars, uploadVars, joinVars, reportVars,
                   targetVars>>

\* a request of save() fails: the error is rethrown by save() and by the
\* updateFile/removeFile call
saveThrows(s) ==
    /\ ixCall[s].pc \in {"list", "delete", "upload"}
    /\ ixCall' = [ixCall EXCEPT ![s] = NoCall]
    /\ ixFailed' = TRUE
    /\ UNCHANGED <<ixCache, ixObject, ixNextId, ixTrail>>
    /\ UNCHANGED <<moreVars, lockVars, runVars, lifeVars, uploadVars, joinVars, reportVars,
                   targetVars>>

\* save(): listFiles answers; without an old index object the document is
\* serialized at once and its upload starts
saveListFiles(s) ==
    /\ ixCall[s].pc = "list"
    /\ ixCall' = [ixCall EXCEPT ![s] =
                    IF ixObject = NoIndexObject
                    THEN [@ EXCEPT !.pc = "upload", !.json = ixCache.files]
                    ELSE [@ EXCEPT !.pc = "delete",
                                   !.seen = ixObject.fileId]]
    /\ UNCHANGED <<ixCache, ixObject, ixNextId, ixTrail, ixFailed>>
    /\ UNCHANGED <<moreVars, lockVars, runVars, lifeVars, uploadVars, joinVars, reportVars,
                   targetVars>>

\* save(): deleteFiles([oldIndexFile.fileId]) answers, the document is
\* serialized and its upload starts
saveDeleteFiles(s) ==
    /\ ixCall[s].pc = "delete"
    /\ ixObject' = IF ixObject.fileId = ixCall[s].seen
                   THEN NoIndexObject ELSE ixObject
    /\ ixCall' = [ixCall EXCEPT ![s] =
                    [@ EXCEPT !.pc = "upload", !.json = ixCache.files]]
    /\ UNCHANGED <<ixCache, ixNextId, ixTrail, ixFailed>>
    /\ UNCHANGED <<moreVars, lockVars, runVars, lifeVars, uploadVars, joinVars, reportVars,
                   targetVars>>

\* save(): uploadSingle completes with duplicateStrategy 2, the serialized
\* document becomes the index object; currentIndex = indexToSave
saveUploadSingle(s) ==
    /\ ixCall[s].pc = "upload"
    /\ ixObject' = [fileId |-> ixNextId, files |-> ixCall[s].json]
    /\ ixNextId' = ixNextId + 1
    /\ ixCall' = [ixCall EXCEPT ![s] = NoCall]
    /\ UNCHANGED <<ixCache, ixTrail, ixFailed>>
    /\ UNCHANGED <<moreVars, lockVars, runVars, lifeVars, uploadVars, joinVars, reportVars,
                   targetVars>>

IndexNext ==
    \/ \E s \in Siblings, p \in Files, t \in FileTs :
          callUpdateFile(s, p, [updated |-> t])
    \/ \E s \in Siblings, p \in Files : callRemoveFile(s, p)
    \/ \E s \in Siblings : saveThrows(s)
    \/ \E s \in Siblings : saveListFiles(s)
    \/ \E s \in Siblings : saveDeleteFiles(s)
    \/ \E s \in Siblings : saveUploadSingle(s)

--------------------------------------------------------------------------
(* Pan123Client.uploadSingle: session, slices, completion *)

MAX_SLICE_RETRIES == 3
DEFAULT_SLICE_SIZE == 16 * 1024 * 1024
\* completeUpload: maxAttempts
maxAttempts == 30

\* the digest spark.end().toLowerCase() computes for a slice, the same
\* digest in upper case, another digest, and a reply without md5/sliceMD5
chunkMd5 == "d"
Md5Values == {"absent", "d", "D", "x"}

\* String.prototype.toLowerCase on the digests above
toLowerCase(md5) == IF md5 = "D" THEN "d" ELSE md5

\* replies to upload/v2/file/slice: ok is FALSE for a timeout, a network
\* error, an HTTP status outside 2xx and a reply with code # 0
SliceReplies ==
    {[ok |-> FALSE, md5 |-> "absent"]} \cup [ok : {TRUE}, md5 : Md5Values]

\* the test of a slice reply that accepts any echoed digest
sliceAcceptedAnyDigest(reply, localMd5) == reply.ok

\* uploadSliceWithRetry: the reply reaches "return {success: true}"
sliceAccepted(reply, localMd5) ==
    /\ reply.ok
    /\ ~(reply.md5 # "absent" /\ toLowerCase(reply.md5) # localMd5)

\* the retry loop giving up one attempt early
mayAttemptOneLess(attempt) == attempt < MAX_SLICE_RETRIES

\* the retry loop allowing one attempt more
mayAttemptOneMore(attempt) == attempt <= MAX_SLICE_RETRIES + 1

\* uploadSliceWithRetry: for (attempt = 1; attempt <= MAX_SLICE_RETRIES; ...)
mayAttempt(attempt) == attempt <= MAX_SLICE_RETRIES

\* uploadSlices: chunkSize
chunkSize(session) ==
    IF session.sliceSize > 0 THEN session.sliceSize ELSE DEFAULT_SLICE_SIZE

NoSession == [sliceSize |-> 0, fileId |-> 0]
NoResult == [fileId |-> 0, completed |-> FALSE]
NoReply == "none"

\* replies to upload/v2/file/upload_complete:
\*   verifying   - code # 0 with the still-verifying message or code
\*   error       - any other code # 0, or an HTTP status outside 2xx
\*   pending     - code 0, neither completed nor fileID
\*   completed   - code 0, completed and fileID
\*   completedNoId - code 0, completed without fileID
\*   idNotCompleted - code 0, fileID with completed false
CompleteReplies == {"verifying", "error", "pending", "completed",
                    "completedNoId", "idNotCompleted"}

\* completeUpload polling after every reply that is not an error
keepsPollingUnlessError(reply) == reply # "error"

\* completeUpload: the reply leads to sleep(1000) and the next iteration
keepsPolling(reply) == reply \in {"verifying", "pending"}

\* the id the hub gives the uploaded object, and the id it answers with
\* when it has the content already
NewFileId == 2
ReusedFileId == 1

UploadInit ==
    /\ upPc = "create"
    /\ upSize \in 0 .. MaxUploadSize
    /\ upSession = NoSession
    /\ upOffset = 0
    /\ upSliceNo = 1
    /\ upAttempt = 1
    /\ upLog = <<>>
    /\ upPolls = 0
    /\ upLastReply = NoReply
    /\ upResult = NoResult
    /\ upListed = {}

\* uploadSingle up to the first slice request: createUploadSession answers
\* with a session (preuploadID, sliceSize, fileID); uploadSlices starts, and
\* is over at once for an empty file
createUploadSession(sliceSize, fileId) ==
    /\ upPc = "create"
    /\ upSession' = [sliceSize |-> sliceSize, fileId |-> fileId]
    /\ upPc' = IF 0 < upSize THEN "slice" ELSE "complete"
    /\ UNCHANGED <<upSize, upOffset, upSliceNo, upAttempt, upLog, upPolls,
                   upLastReply, upResult, upListed>>
    /\ UNCHANGED <<moreVars, lockVars, runVars, lifeVars, indexVars, joinVars, reportVars,
                   targetVars>>

\* createUploadSession answers reuse with a file id, the hub having the
\* content already: uploadSingle returns the id without sending a byte
createUploadSessionReuse ==
    /\ upPc = "create"
    /\ upResult' = [fileId |-> ReusedFileId, completed |-> TRUE]
    /\ upListed' = upListed \cup {ReusedFileId}
    /\ upPc' = "returned"
    /\ UNCHANGED <<upSize, upSession, upOffset, upSliceNo, upAttempt, upLog,
                   upPolls, upLastReply>>
    /\ UNCHANGED <<moreVars, lockVars, runVars, lifeVars, indexVars, joinVars, reportVars,
                   targetVars>>

\* createUploadSession throws, or answers without preuploadID, or no
\* upload server can be resolved
createUploadSessionFails ==
    /\ upPc = "create"
    /\ upPc' = "thrown"
    /\ UNCHANGED <<upSize, upSession, upOffset, upSliceNo, upAttempt, upLog,
                   upPolls, upLastReply, upResult, upListed>>
    /\ UNCHANGED <<moreVars, lockVars, runVars, lifeVars, indexVars, joinVars, reportVars,
                   targetVars>>

\* one iteration of the retry loop of uploadSliceWithRetry: the slice is
\* submitted and the reply examined; on success uploadSlices advances to
\* the next slice or returns, on failure the loop retries the same slice or
\* gives up, and uploadSlices throws
uploadSliceWithRetry(reply) ==
    /\ upPc = "slice"
    /\ upLog' = Append(upLog, [sliceNo |-> upSliceNo, attempt |-> upAttempt,
                               reply |-> reply])
    /\ IF sliceAccepted(reply, chunkMd5)
       THEN LET end == Min(upOffset + chunkSize(upSession), upSize)
            IN  /\ upOffset' = end
                /\ upSliceNo' = upSliceNo + 1
                /\ upAttempt' = 1
                /\ upPc' = IF end < upSize THEN "slice" ELSE "complete"
       ELSE /\ upAttempt' = upAttempt + 1
            /\ upPc' = IF mayAttempt(upAttempt + 1) THEN "slice" ELSE "thrown"
            /\ UNCHANGED <<upOffset, upSliceNo>>
    /\ UNCHANGED <<upSize, upSession, upPolls, upLastReply, upResult, upListed>>
    /\ UNCHANGED <<moreVars, lockVars, runVars, lifeVars, indexVars, joinVars, reportVars,
                   targetVars>>

\* one iteration of the loop of completeUpload; the hub lists the object
\* once it answers that the upload is completed
completeUpload(reply) ==
    /\ upPc = "complete"
    /\ upPolls' = upPolls + 1
    /\ upLastReply' = reply
    /\ IF keepsPolling(reply)
       THEN /\ upPc' = IF upPolls + 1 < maxAttempts THEN "complete" ELSE "thrown"
            /\ UNCHANGED <<upResult, upListed>>
       ELSE IF reply = "error"
       THEN /\ upPc' = "thrown"
            /\ UNCHANGED <<upResult, upListed>>
       ELSE /\ upPc' = "returned"
            /\ upResult' =
                 CASE reply = "completed" ->
                        [fileId |-> NewFileId, completed |-> TRUE]
                   [] reply = "completedNoId" ->
                        [fileId |-> upSession.fileId, completed |-> TRUE]
                   [] OTHER ->
                        [fileId |-> NewFileId, completed |-> FALSE]
            /\ upListed' = IF reply \in {"completed", "completedNoId"}
                           THEN upListed \cup {NewFileId} ELSE upListed
    /\ UNCHANGED <<upSize, upSession, upOffset, upSliceNo, upAttempt, upLog>>
    /\ UNCHANGED <<moreVars, lockVars, runVars, lifeVars, indexVars, joinVars, reportVars,
                   targetVars>>

\* the slice sizes a session carries: none (the default applies), the size
\* of the largest file and one byte less
SliceSizes == {0, MaxUploadSize - 1, MaxUploadSize}

UploadNext ==
    \/ \E z \in SliceSizes, f \in {0, NewFileId} :
          createUploadSession(z, f)
    \/ createUploadSessionReuse
    \/ createUploadSessionFails
    \/ \E reply \in SliceReplies : uploadSliceWithRetry(reply)
    \/ \E reply \in CompleteReplies : completeUpload(reply)

--------------------------------------------------------------------------
(* StorageItem.joinItems on StorageItem objects *)

NullFileInfo == "null"
\* null in place of a StorageItem (the constructor refuses an empty path)
NullStorageItem == [path |-> <<>>, item |-> NullFileInfo, files |-> <<>>]
\* joinItems has not been called; joinItems threw
NotJoined == [path |-> <<>>, item |-> "none", files |-> <<>>]
JoinThrows == [path |-> <<>>, item |-> "throws", files |-> <<>>]

\* the children a StorageItem may hold: a path directly under Root and the
\* timestamp of its FileInfo
Children == [path : {FileA, DirD}, updated : FileTs]

\* the files arrays of at most MaxChildren children; a path may occur twice
ChildArrays == UNION {[1 .. n -> Children] : n \in 0 .. MaxChildren}

\* the position of the key in a Map kept as the array of its values in
\* insertion order, 0 when the key is absent
keyIndex(map, path) ==
    IF \E i \in 1 .. Len(map) : map[i].path = path
    THEN CHOOSE i \in 1 .. Len(map) : map[i].path = path
    ELSE 0

\* a Map whose set keeps the value already stored under the key
filesMapSetKeepsFirst(map, file) ==
    IF keyIndex(map, file.path) = 0 THEN Append(map, file) ELSE map

\* filesMap.set(file.path, file): a new key is appended, the value of an
\* existing key is replaced in place
filesMapSet(map, file) ==
    IF keyIndex(map, file.path) = 0
    THEN Append(map, file)
    ELSE [map EXCEPT ![keyIndex(map, file.path)] = file]

\* for (const file of files) filesMap.set(file.path, file), then
\* Array.from(filesMap.values())
RECURSIVE filesMapValues(_, _)
filesMapValues(map, files) ==
    IF files = <<>> THEN map
    ELSE filesMapValues(filesMapSet(map, Head(files)), Tail(files))

\* StorageItem.joinItems(item1, item2) for two items that are not both null
joinStorageItems(item1, item2) ==
    IF item1 = NullStorageItem THEN item2
    ELSE IF item2 = NullStorageItem THEN item1
    ELSE IF item1.path # item2.path THEN JoinThrows
    ELSE [path |-> item1.path,
          item |-> IF item1.item # NullFileInfo THEN item1.item ELSE item2.item,
          files |-> filesMapValues(<<>>, item1.files \o item2.files)]

JoinInit ==
    /\ joinItem1 \in {NullStorageItem}
          \cup [path : {Root}, item : {NullFileInfo, "info1"},
                files : ChildArrays]
    /\ joinItem2 \in {NullStorageItem}
          \cup [path : {Root, DirD}, item : {NullFileInfo, "info2"},
                files : ChildArrays]
    /\ joinResult = NotJoined

\* one call of StorageItem.joinItems(item1, item2)
callJoinItems ==
    /\ joinItem1 # NotJoined
    /\ joinResult = NotJoined
    /\ joinResult' =
          IF joinItem1 = NullStorageItem /\ joinItem2 = NullStorageItem
          THEN JoinThrows
          ELSE joinStorageItems(joinItem1, joinItem2)
    /\ UNCHANGED <<joinItem1, joinItem2>>
    /\ UNCHANGED <<moreVars, lockVars, runVars, lifeVars, indexVars, uploadVars, reportVars,
                   targetVars>>

JoinNext == callJoinItems

--------------------------------------------------------------------------
(* SyncManager.sync: the result message of successive runs *)

\* the message that reports conflicts before errors
resultMessageConflictsFirst(errors, conflict) ==
    IF conflict THEN "syncCompletedWithConflicts"
    ELSE IF Len(errors) > 0 THEN "syncCompletedWithErrors"
    ELSE "syncCompletedSuccessfully"

\* sync(): the showMessage call chosen after updateSyncHistories
resultMessage(errors, conflict) ==
    IF Len(errors) > 0 THEN "syncCompletedWithErrors"
    ELSE IF conflict THEN "syncCompletedWithConflicts"
    ELSE "syncCompletedSuccessfully"

\* the operations a SyncError names
ErrorOperations == {"upload", "download"}

ReportInit ==
    /\ rpPc = "idle"
    /\ rpRuns = 0
    /\ rpConflictDetected = FALSE
    /\ rpSyncErrors = <<>>
    /\ rpPushed = 0
    /\ rpDetected = FALSE
    /\ rpMessages = <<>>

\* sync() is called: conflictDetected = false, syncErrors = []
reportCallSync ==
    /\ rpPc # "running"
    /\ rpRuns < MaxRuns
    /\ rpRuns' = rpRuns + 1
    /\ rpPc' = "running"
    /\ rpConflictDetected' = FALSE
    /\ rpSyncErrors' = <<>>
    /\ rpPushed' = 0
    /\ rpDetected' = FALSE
    /\ UNCHANGED rpMessages
    /\ UNCHANGED <<moreVars, lockVars, runVars, lifeVars, indexVars, uploadVars, joinVars,
                   targetVars>>

\* a failure inside the loop over the targets is caught and recorded
reportPushError(operation) ==
    /\ rpPc = "running"
    /\ rpPushed < MaxErrors
    /\ rpSyncErrors' = Append(rpSyncErrors, [operation |-> operation])
    /\ rpPushed' = rpPushed + 1
    /\ UNCHANGED <<rpPc, rpRuns, rpConflictDetected, rpDetected, rpMessages>>
    /\ UNCHANGED <<moreVars, lockVars, runVars, lifeVars, indexVars, uploadVars, joinVars,
                   targetVars>>

\* syncFile: detectConflict answered true
reportConflict ==
    /\ rpPc = "running"
    /\ rpConflictDetected' = TRUE
    /\ rpDetected' = TRUE
    /\ UNCHANGED <<rpPc, rpRuns, rpSyncErrors, rpPushed, rpMessages>>
    /\ UNCHANGED <<moreVars, lockVars, runVars, lifeVars, indexVars, uploadVars, joinVars,
                   targetVars>>

\* the run reaches the end of the inner try and shows its result
reportShowMessage ==
    /\ rpPc = "running"
    /\ rpMessages' = Append(rpMessages,
                            resultMessage(rpSyncErrors, rpConflictDetected))
    /\ rpPc' = "reported"
    /\ UNCHANGED <<rpRuns, rpConflictDetected, rpSyncErrors, rpPushed,
                   rpDetected>>
    /\ UNCHANGED <<moreVars, lockVars, runVars, lifeVars, indexVars, uploadVars, joinVars,
                   targetVars>>

\* a step outside the loop over the targets throws: the catch block shows
\* the failure message and rethrows
reportAbort ==
    /\ rpPc = "running"
    /\ rpMessages' = Append(rpMessages, "syncFailed")
    /\ rpPc' = "aborted"
    /\ UNCHANGED <<rpRuns, rpConflictDetected, rpSyncErrors, rpPushed,
                   rpDetected>>
    /\ UNCHANGED <<moreVars, lockVars, runVars, lifeVars, indexVars, uploadVars, joinVars,
                   targetVars>>

ReportNext ==
    \/ reportCallSync
    \/ \E o \in ErrorOperations : reportPushError(o)
    \/ reportConflict
    \/ reportShowMessage
    \/ reportAbort

--------------------------------------------------------------------------
(* Successive runs of sync() over one file *)

\* the path of the conflict copy handleConflict writes next to t/a
conflictPath == <<"t", "a (copy)">>
SeriesPaths == {FileA, conflictPath}

\* the child of a StorageItem for a file with the given timestamp
seriesItem(path, timestamp) ==
    IF timestamp = 0 THEN NullItem
    ELSE [path |-> path, isDir |-> FALSE, updated |-> timestamp]

\* the device has synced with the hub at time 1 or never, and the
\* directory is empty on both sides
SeriesInit ==
    /\ sqNow = 1
    /\ sqTarget \in TargetOptions
    /\ sqStrategy \in Strategies
    /\ sqLocal = [p \in SeriesPaths |-> 0]
    /\ sqIndex = [p \in SeriesPaths |-> 0]
    /\ \E h \in {0, 1} :
          /\ sqLocalHistory = [k \in {CloudId} |-> h]
          /\ sqCloudHistory = [k \in {LocalId, OtherId} |-> IF k = LocalId THEN h ELSE 0]
    /\ sqPc = "idle"
    /\ sqPending = {}
    /\ sqOps = {}
    /\ sqErrors = FALSE
    /\ sqSettled = FALSE
    /\ sqOnHub = {}
    /\ sqRuns = 0

\* a second passes
seriesTick ==
    /\ sqNow < MaxNow
    /\ sqNow' = sqNow + 1
    /\ UNCHANGED <<sqTarget, sqStrategy, sqLocal, sqIndex, sqLocalHistory,
                   sqCloudHistory, sqPc, sqPending, sqOps, sqErrors, sqSettled,
                   sqOnHub, sqRuns>>
    /\ UNCHANGED <<lockVars, runVars, lifeVars, indexVars, uploadVars, joinVars,
                   reportVars, targetVars, sharedVars>>

\* between two runs the user writes t/a (its modification time is now)
userWrites ==
    /\ sqPc = "idle"
    /\ sqLocal[FileA] # sqNow
    /\ sqLocal' = [sqLocal EXCEPT ![FileA] = sqNow]
    /\ sqSettled' = FALSE
    /\ UNCHANGED <<sqNow, sqTarget, sqStrategy, sqIndex, sqLocalHistory,
                   sqCloudHistory, sqPc, sqPending, sqOps, sqErrors, sqOnHub,
                   sqRuns>>
    /\ UNCHANGED <<lockVars, runVars, lifeVars, indexVars, uploadVars, joinVars,
                   reportVars, targetVars, sharedVars>>

\* between two runs the user deletes t/a
userDeletes ==
    /\ sqPc = "idle"
    /\ sqLocal[FileA] # 0
    /\ sqLocal' = [sqLocal EXCEPT ![FileA] = 0]
    /\ sqSettled' = FALSE
    /\ UNCHANGED <<sqNow, sqTarget, sqStrategy, sqIndex, sqLocalHistory,
                   sqCloudHistory, sqPc, sqPending, sqOps, sqErrors, sqOnHub,
                   sqRuns>>
    /\ UNCHANGED <<lockVars, runVars, lifeVars, indexVars, uploadVars, joinVars,
                   reportVars, targetVars, sharedVars>>

\* between two runs of this device another device uploads its version of
\* t/a (written now) and stamps its sync time into the hub history
otherDeviceUploads ==
    /\ sqPc = "idle"
    /\ sqIndex[FileA] # sqNow
    /\ sqIndex' = [sqIndex EXCEPT ![FileA] = sqNow]
    /\ sqCloudHistory' = [sqCloudHistory EXCEPT ![OtherId] = sqNow]
    /\ sqOnHub' = sqOnHub \cup {FileA}
    /\ sqSettled' = FALSE
    /\ UNCHANGED <<sqNow, sqTarget, sqStrategy, sqLocal, sqLocalHistory, sqPc,
                   sqPending, sqOps, sqErrors, sqRuns>>
    /\ UNCHANGED <<lockVars, runVars, lifeVars, indexVars, uploadVars, joinVars,
                   reportVars, targetVars, sharedVars>>

\* sync() up to the listing of syncDirectory: the error list is cleared and
\* a syncFile call is launched for every path present on either side
seriesCallSync ==
    /\ sqPc = "idle"
    /\ sqRuns < MaxRuns
    /\ sqPc' = "syncing"
    /\ sqPending' = {p \in SeriesPaths : sqLocal[p] # 0 \/ sqIndex[p] # 0}
    /\ sqOps' = {}
    /\ sqErrors' = FALSE
    /\ UNCHANGED <<sqNow, sqTarget, sqStrategy, sqLocal, sqIndex, sqLocalHistory,
                   sqCloudHistory, sqSettled, sqOnHub, sqRuns>>
    /\ UNCHANGED <<lockVars, runVars, lifeVars, indexVars, uploadVars, joinVars,
                   reportVars, targetVars, sharedVars>>

\* one syncFile call of the run. Under keepBoth a detected conflict first
\* writes the conflict copy; the transfer or deletion then succeeds, or
\* throws before it takes effect and leaves a SyncError
seriesSyncFile(p, throws) ==
    /\ sqPc = "syncing"
    /\ p \in sqPending
    /\ LET d == syncFile(seriesItem(p, sqLocal[p]), seriesItem(p, sqIndex[p]),
                         sqTarget, sqStrategy, sqLocalHistory, sqCloudHistory)
           copies == IF d.conflict /\ sqStrategy = "keepBoth" /\ p = FileA
                     THEN handleConflict({}, p, sqLocal[p], sqIndex[p], NoBody)
                     ELSE {}
           withCopy == IF copies = {} THEN sqLocal
                       ELSE [sqLocal EXCEPT ![conflictPath] =
                                (CHOOSE c \in copies : TRUE).stamp]
           done == ~throws
       IN  /\ throws => d.action # "none"
           /\ sqPending' = sqPending \ {p}
           /\ sqErrors' = (sqErrors \/ throws)
           /\ sqOps' = IF done /\ d.action # "none"
                       THEN sqOps \cup {[path |-> p, operation |-> d.action]}
                       ELSE sqOps
           /\ sqLocal' =
                CASE done /\ d.action = "download" ->
                        [withCopy EXCEPT ![p] = sqIndex[p]]
                  [] done /\ d.action = "deleteLocal" ->
                        [withCopy EXCEPT ![p] = 0]
                  [] OTHER -> withCopy
           /\ sqIndex' =
                CASE done /\ d.action = "upload" ->
                        [sqIndex EXCEPT ![p] = sqLocal[p]]
                  [] done /\ d.action = "deleteCloud" ->
                        [sqIndex EXCEPT ![p] = 0]
                  [] OTHER -> sqIndex
           /\ sqOnHub' = IF done /\ d.action = "upload"
                         THEN sqOnHub \cup {p} ELSE sqOnHub
    /\ UNCHANGED <<sqNow, sqTarget, sqStrategy, sqLocalHistory, sqCloudHistory,
                   sqPc, sqSettled, sqRuns>>
    /\ UNCHANGED <<lockVars, runVars, lifeVars, indexVars, uploadVars, joinVars,
                   reportVars, targetVars, sharedVars>>

\* the end of sync(): both histories are stamped with the current second
\* and persisted, whether or not a file failed
seriesFinish ==
    /\ sqPc = "syncing"
    /\ sqPending = {}
    /\ sqLocalHistory' = [sqLocalHistory EXCEPT ![CloudId] = sqNow]
    /\ sqCloudHistory' = [sqCloudHistory EXCEPT ![LocalId] = sqNow]
    /\ sqPc' = "idle"
    /\ sqRuns' = sqRuns + 1
    /\ sqSettled' = ~sqErrors
    /\ UNCHANGED <<sqNow, sqTarget, sqStrategy, sqLocal, sqIndex, sqPending,
                   sqOps, sqErrors, sqOnHub>>
    /\ UNCHANGED <<lockVars, runVars, lifeVars, indexVars, uploadVars, joinVars,
                   reportVars, targetVars, sharedVars>>

SeriesNext ==
    \/ seriesTick
    \/ userWrites
    \/ userDeletes
    \/ otherDeviceUploads
    \/ seriesCallSync
    \/ \E p \in SeriesPaths, throws \in BOOLEAN : seriesSyncFile(p, throws)
    \/ seriesFinish

--------------------------------------------------------------------------
(* Two SyncManagers sharing one hub index *)

\* one SyncManager per device, each with its own CloudIndexManager
Managers == {"m1", "m2"}

\* the path a manager uploads in its runs
ownPath(m) == <<"t", m>>

\* CloudIndexManager.currentIndex = null
NoCache == [loaded |-> FALSE, files |-> {}]

SharedInit ==
    /\ shIndex = {}
    /\ shCache = [m \in Managers |-> NoCache]
    /\ shLock = "none"
    /\ shPc = [m \in Managers |-> "idle"]
    /\ shRuns = [m \in Managers |-> 0]
    /\ shReleased = {}
    /\ shBase = [m \in Managers |-> {}]

\* sync() is called on manager m
sharedCallSync(m) ==
    /\ shPc[m] = "idle"
    /\ shRuns[m] < MaxRuns
    /\ shPc' = [shPc EXCEPT ![m] = "load"]
    /\ UNCHANGED <<shIndex, shCache, shLock, shRuns, shReleased, shBase>>
    /\ UNCHANGED <<lockVars, runVars, lifeVars, indexVars, uploadVars, joinVars,
                   reportVars, targetVars, seriesVars>>

\* cloudIndexManager.load(): the cached document if there is one, else the
\* document downloaded from the hub, which becomes the cache
sharedLoad(m) ==
    /\ shPc[m] = "load"
    /\ shCache' = [shCache EXCEPT ![m] =
            IF @.loaded THEN @ ELSE [loaded |-> TRUE, files |-> shIndex]]
    /\ shPc' = [shPc EXCEPT ![m] = "setInstanceId"]
    /\ UNCHANGED <<shIndex, shLock, shRuns, shReleased, shBase>>
    /\ UNCHANGED <<lockVars, runVars, lifeVars, indexVars, uploadVars, joinVars,
                   reportVars, targetVars, seriesVars>>

\* cloudIndexManager.setInstanceId(id): save() replaces the hub document
\* by the cached one
sharedSetInstanceId(m) ==
    /\ shPc[m] = "setInstanceId"
    /\ shIndex' = shCache[m].files
    /\ shPc' = [shPc EXCEPT ![m] = "acquireLock"]
    /\ UNCHANGED <<shCache, shLock, shRuns, shReleased, shBase>>
    /\ UNCHANGED <<lockVars, runVars, lifeVars, indexVars, uploadVars, joinVars,
                   reportVars, targetVars, seriesVars>>

\* acquireLock(), the lock taken in one step: the run holds the lock, or
\* throws because another run holds it and ends
sharedAcquireLock(m) ==
    /\ shPc[m] = "acquireLock"
    /\ IF shLock = "none"
       THEN /\ shLock' = m
            /\ shPc' = [shPc EXCEPT ![m] = "reconcile"]
            /\ shBase' = [shBase EXCEPT ![m] = shReleased]
            /\ UNCHANGED shRuns
       ELSE /\ shPc' = [shPc EXCEPT ![m] = "idle"]
            /\ shRuns' = [shRuns EXCEPT ![m] = @ + 1]
            /\ UNCHANGED <<shLock, shBase>>
    /\ UNCHANGED <<shIndex, shCache, shReleased>>
    /\ UNCHANGED <<lockVars, runVars, lifeVars, indexVars, uploadVars, joinVars,
                   reportVars, targetVars, seriesVars>>

\* uploadFileToCloud for the manager's path: updateFile sets the entry in
\* the cached document and saves it
sharedUpdateFile(m) ==
    /\ shPc[m] = "reconcile"
    /\ shCache' = [shCache EXCEPT ![m].files = @ \cup {ownPath(m)}]
    /\ shIndex' = shCache[m].files \cup {ownPath(m)}
    /\ shPc' = [shPc EXCEPT ![m] = "uploaded"]
    /\ UNCHANGED <<shLock, shRuns, shReleased, shBase>>
    /\ UNCHANGED <<lockVars, runVars, lifeVars, indexVars, uploadVars, joinVars,
                   reportVars, targetVars, seriesVars>>

\* releaseLock() at the end of a run, which has uploaded its path or has
\* found nothing to transfer
sharedReleaseLock(m) ==
    /\ shPc[m] \in {"reconcile", "uploaded"}
    /\ shLock' = "none"
    /\ shReleased' = IF shPc[m] = "uploaded"
                     THEN shReleased \cup {ownPath(m)} ELSE shReleased
    /\ shPc' = [shPc EXCEPT ![m] = "idle"]
    /\ shRuns' = [shRuns EXCEPT ![m] = @ + 1]
    /\ UNCHANGED <<shIndex, shCache, shBase>>
    /\ UNCHANGED <<lockVars, runVars, lifeVars, indexVars, uploadVars, joinVars,
                   reportVars, targetVars, seriesVars>>

SharedNext ==
    \/ \E m \in Managers : sharedCallSync(m)
    \/ \E m \in Managers : sharedLoad(m)
    \/ \E m \in Managers : sharedSetInstanceId(m)
    \/ \E m \in Managers : sharedAcquireLock(m)
    \/ \E m \in Managers : sharedUpdateFile(m)
    \/ \E m \in Managers : sharedReleaseLock(m)

--------------------------------------------------------------------------
(* Specifications *)

\* the variables of the part of the model a specification does not exercise
LockIdle ==
    /\ now = 0
    /\ createAtForm = "numeric"
    /\ hubLock = NoLock
    /\ nextFileId = 1
    /\ hubIdentity = TRUE
    /\ localIdentity = [r \in Runs |-> TRUE]
    /\ pc = [r \in Runs |-> "idle"]
    /\ lockSeen = [r \in Runs |-> NoLock]
    /\ startedAt = [r \in Runs |-> 0]
    /\ mutations = [r \in Runs |-> {}]

RunIdle ==
    /\ phase = "idle"
    /\ atStart = [localFiles |-> [p \in Files |-> NoFile], localDirs |-> {},
                  hubIndex |-> EmptyFiles,
                  hubObjects |-> [p \in Files |-> NoBody],
                  localHistory |-> [k \in {CloudId, OtherId} |-> 0],
                  cloudHistory |-> [k \in {LocalId, OtherId} |-> 0]]
    /\ target = CHOOSE t \in TargetOptions : TRUE
    /\ conflictStrategy = "keepNewer"
    /\ localFiles = [p \in Files |-> NoFile]
    /\ localDirs = {}
    /\ conflictCopies = {}
    /\ hubObjects = [p \in Files |-> NoBody]
    /\ hubIndex = EmptyFiles
    /\ currentIndex = [loaded |-> FALSE, files |-> EmptyFiles]
    /\ indexLoadFailed = FALSE
    /\ localHistory = [k \in {CloudId, OtherId} |-> 0]
    /\ cloudHistory = [k \in {LocalId, OtherId} |-> 0]
    /\ pendingDirs = {}
    /\ pendingFiles = {}
    /\ visited = {}
    /\ ops = [p \in Files |-> <<>>]
    /\ conflictDetected = FALSE
    /\ syncErrors = <<>>

LifeIdle ==
    /\ step = 0
    /\ events = <<>>
    /\ result = "none"
    /\ failedAt = "none"
    /\ releaseFailed = FALSE
    /\ hadErrors = FALSE
    /\ idObjects = [local |-> 0, cloud |-> 0]
    /\ remoteIds = [local |-> 0, cloud |-> 0]
    /\ nextInstanceId = 3
    /\ lifeLock = FALSE
    /\ persisted = [s \in Sides |-> NoHistory]
    /\ loaded = [s \in Sides |-> NoHistory]
    /\ saved = [s \in Sides |-> FALSE]
    /\ startPersisted = [s \in Sides |-> NoHistory]
    /\ runs = 0

IndexIdle ==
    /\ ixCache = [loaded |-> FALSE, files |-> EmptyFiles]
    /\ ixObject = NoIndexObject
    /\ ixNextId = 1
    /\ ixCall = [s \in Siblings |-> NoCall]
    /\ ixTrail = <<>>
    /\ ixFailed = FALSE

UploadIdle ==
    /\ upPc = "idle"
    /\ upSize = 0
    /\ upSession = NoSession
    /\ upOffset = 0
    /\ upSliceNo = 1
    /\ upAttempt = 1
    /\ upLog = <<>>
    /\ upPolls = 0
    /\ upLastReply = NoReply
    /\ upResult = NoResult
    /\ upListed = {}

JoinIdle ==
    /\ joinItem1 = NotJoined
    /\ joinItem2 = NotJoined
    /\ joinResult = NotJoined

ReportIdle ==
    /\ rpPc = "unused"
    /\ rpRuns = 0
    /\ rpConflictDetected = FALSE
    /\ rpSyncErrors = <<>>
    /\ rpPushed = 0
    /\ rpDetected = FALSE
    /\ rpMessages = <<>>

TargetsIdle == targetsLeft = <<>>

SeriesIdle ==
    /\ sqNow = 0
    /\ sqTarget = DataTarget
    /\ sqStrategy = "keepNewer"
    /\ sqLocal = <<>>
    /\ sqIndex = <<>>
    /\ sqLocalHistory = <<>>
    /\ sqCloudHistory = <<>>
    /\ sqPc = "unused"
    /\ sqPending = {}
    /\ sqOps = {}
    /\ sqErrors = FALSE
    /\ sqSettled = FALSE
    /\ sqOnHub = {}
    /\ sqRuns = 0

SharedIdle ==
    /\ shIndex = {}
    /\ shCache = <<>>
    /\ shLock = "none"
    /\ shPc = <<>>
    /\ shRuns = <<>>
    /\ shReleased = {}
    /\ shBase = <<>>

MoreIdle == SeriesIdle /\ SharedIdle

PartIdleButSeries ==
    IndexIdle /\ UploadIdle /\ JoinIdle /\ ReportIdle /\ TargetsIdle

PartIdle ==
    IndexIdle /\ UploadIdle /\ JoinIdle /\ ReportIdle /\ TargetsIdle /\ MoreIdle

\* ConflictHandler.detectConflict applied to arbitrary timestamps and
\* histories: the call is the one syncFile makes, without the tests syncFile
\* makes before it
DetectInit ==
    /\ phase = "detect"
    /\ target = CHOOSE t \in TargetOptions : TRUE
    /\ conflictStrategy \in Strategies
    /\ localDirs = {}
    /\ conflictCopies = {}
    /\ hubObjects = [p \in Files |-> NoBody]
    /\ hubIndex = EmptyFiles
    /\ currentIndex = [loaded |-> FALSE, files |-> EmptyFiles]
    /\ indexLoadFailed = FALSE
    /\ localHistory \in [{CloudId, OtherId} -> SyncTs]
    /\ cloudHistory \in [{LocalId, OtherId} -> SyncTs]
    /\ pendingDirs = {}
    /\ \E lt \in 0 .. MaxFileTs, ct \in 0 .. MaxFileTs :
          /\ pendingFiles = {[path |-> FileA,
                              localFile |-> [path |-> FileA, isDir |-> FALSE, updated |-> lt],
                              cloudFile |-> [path |-> FileA, isDir |-> FALSE, updated |-> ct]]}
          /\ localFiles = [p \in Files |->
                              IF p = FileA /\ lt > 0
                              THEN [updated |-> lt, body |-> "L"] ELSE NoFile]
    /\ visited = {}
    /\ ops = [p \in Files |-> <<>>]
    /\ conflictDetected = FALSE
    /\ syncErrors = <<>>
    /\ atStart = [localFiles |-> localFiles, localDirs |-> localDirs,
                  hubIndex |-> hubIndex, hubObjects |-> hubObjects,
                  localHistory |-> localHistory, cloudHistory |-> cloudHistory]

detectConflictCall(job) ==
    /\ phase = "detect"
    /\ job \in pendingFiles
    /\ conflictDetected' = detectConflict(job.localFile.updated,
                                          job.cloudFile.updated,
                                          localHistory, cloudHistory)
    /\ pendingFiles' = pendingFiles \ {job}
    /\ visited' = visited \cup {job}
    /\ phase' = "detected"
    /\ UNCHANGED <<atStart, target, conflictStrategy, localFiles, localDirs,
                   conflictCopies, hubObjects, hubIndex, currentIndex,
                   indexLoadFailed, localHistory, cloudHistory, pendingDirs,
                   ops, syncErrors>>
    /\ UNCHANGED lockVars
    /\ UNCHANGED <<lifeVars, partVars>>

\* the keepBoth branch of handleConflictWithStrategy for the conflict just
\* detected: handleConflict is called, and called again by a repeated run
\* that finds the conflict unresolved
handleConflictCall(job) ==
    /\ phase = "detected"
    /\ job \in visited
    /\ conflictDetected
    /\ conflictStrategy = "keepBoth"
    /\ Len(ops[job.path]) < MaxRepeats
    /\ conflictCopies' = handleConflict(conflictCopies, job.path,
                                        job.localFile.updated,
                                        job.cloudFile.updated,
                                        localFiles[job.path].body)
    /\ ops' = [ops EXCEPT ![job.path] = Append(@, "handleConflict")]
    /\ UNCHANGED <<phase, atStart, target, conflictStrategy, localFiles,
                   localDirs, hubObjects, hubIndex, currentIndex,
                   indexLoadFailed, localHistory, cloudHistory, pendingDirs,
                   pendingFiles, visited, conflictDetected, syncErrors>>
    /\ UNCHANGED lockVars
    /\ UNCHANGED <<lifeVars, partVars>>

DetectNext ==
    \/ \E job \in pendingFiles : detectConflictCall(job)
    \/ \E job \in visited : handleConflictCall(job)

InitDetect == DetectInit /\ LockIdle /\ LifeIdle /\ PartIdle

InitLock == LockInit /\ RunIdle /\ LifeIdle /\ PartIdle

InitRun == RunInit /\ LockIdle /\ LifeIdle /\ PartIdle

InitLife == LifeInit /\ LockIdle /\ RunIdle /\ PartIdle

\* the runs of SpecRun under the default strategy, with failing calls
InitFaulty == InitRun /\ conflictStrategy = "keepNewer"

\* the parts of the model outside the components
CoreIdle == LockIdle /\ RunIdle /\ LifeIdle

InitIndex ==
    IndexInit /\ CoreIdle /\ UploadIdle /\ JoinIdle /\ ReportIdle /\ TargetsIdle /\ MoreIdle

\* a run over the default list: the first target is the enclosing one
InitTargets ==
    /\ RunInit
    /\ conflictStrategy = "keepNewer"
    /\ \E list \in getDefaultSyncTargets :
          /\ target = Head(list).options
          /\ targetsLeft = Tail(list)
    /\ LockIdle /\ LifeIdle
    /\ IndexIdle /\ UploadIdle /\ JoinIdle /\ ReportIdle
    /\ MoreIdle

SpecTargets == InitTargets /\ [][TargetsNext]_vars

InitReport ==
    ReportInit /\ CoreIdle /\ IndexIdle /\ UploadIdle /\ JoinIdle /\ TargetsIdle /\ MoreIdle

SpecReport == InitReport /\ [][ReportNext]_vars

InitSeries == SeriesInit /\ CoreIdle /\ PartIdleButSeries /\ SharedIdle

InitShared == SharedInit /\ CoreIdle /\ PartIdleButSeries /\ SeriesIdle

SpecShared == InitShared /\ [][SharedNext]_vars

SpecSeries == InitSeries /\ [][SeriesNext]_vars

InitJoin ==
    JoinInit /\ CoreIdle /\ IndexIdle /\ UploadIdle /\ ReportIdle /\ TargetsIdle /\ MoreIdle

SpecJoin == InitJoin /\ [][JoinNext]_vars

InitUpload ==
    UploadInit /\ CoreIdle /\ IndexIdle /\ JoinIdle /\ ReportIdle /\ TargetsIdle /\ MoreIdle

SpecUpload == InitUpload /\ [][UploadNext]_vars

\* every request of the client is answered or fails: the call goes on
\* as long as it has a step to take
SpecUploadFair == SpecUpload /\ WF_vars(UploadNext)

SpecIndex == InitIndex /\ [][IndexNext]_vars

SpecFaulty == InitFaulty /\ [][FaultyNext]_vars

SpecLife == InitLife /\ [][LifeNext]_vars

SpecDetect == InitDetect /\ [][DetectNext]_vars

SpecLock == InitLock /\ [][LockNext]_vars

SpecRun == InitRun /\ [][RunNext]_vars

--------------------------------------------------------------------------
(* Properties of the hub lock, checked under SpecLock *)

\* C1: acquireLock, on a lock object younger than five minutes, fails the
\* run with the lock-held error and leaves the lock in place; on a lock at
\* least five minutes old it deletes the lock and creates a new one; with
\* no lock object it creates one.
C1_AcquireLockByAge ==
    [][\A r \in Runs :
          /\ (pc[r] = "acquireLock" /\ pc'[r] # "acquireLock") =>
                IF hubLock = NoLock THEN pc'[r] = "createLock"
                ELSE IF TrueAge(hubLock, now) < fiveMinutesInMs
                     THEN pc'[r] = "lockHeld" /\ hubLock' = hubLock
                     ELSE pc'[r] = "removeStaleLock"
          /\ (pc[r] = "removeStaleLock" /\ pc'[r] # "removeStaleLock") =>
                pc'[r] = "createLock"
          /\ (pc[r] = "createLock" /\ pc'[r] # "createLock") =>
                pc'[r] = "locked" /\ hubLock'.holder = r
      ]_vars

\* C2: two runs that each last less than the staleness window never hold
\* the lock at the same time. Stated for a hub whose creation times the age
\* check reads as numbers, so that a violation is one of the protocol and
\* not of the age computation.
C2_MutualExclusion ==
    \A r1 \in Runs : \A r2 \in Runs \ {r1} :
        ( /\ createAtForm = "numeric"
          /\ Holding(r1) /\ Holding(r2)
          /\ Elapsed(r1) < fiveMinutesInMs
          /\ Elapsed(r2) < fiveMinutesInMs ) => FALSE

\* C3: a run that fails because the lock is held has written or deleted
\* no hub object and no local file.
C3_LockHeldNoMutation ==
    \A r \in Runs : pc[r] = "lockHeld" => mutations[r] = {}

--------------------------------------------------------------------------
(* Properties of one run, checked under SpecRun *)

\* every launched syncDirectory and syncFile call has settled
AllSettled ==
    /\ phase \in {"reconciling", "done"}
    /\ pendingDirs = {}
    /\ pendingFiles = {}

Max2(a, b) == IF a >= b THEN a ELSE b

Count(seq, x) == Cardinality({i \in 1 .. Len(seq) : seq[i] = x})

\* number of operations x performed over all paths
Total(x) == Count(ops[FileA], x) + Count(ops[FileB], x)

\* the target's flags make a file deletion-averse
AverseFile == target.avoidDeletions \/ target.deleteFoldersOnly

OneSided(j) == (j.localFile = NullItem) # (j.cloudFile = NullItem)

\* the deletion predicate as the design states it, for the holder of j
DeletionDue(j) ==
    LET holderLocal == j.localFile # NullItem
        fileTimestamp == IF holderLocal THEN j.localFile.updated
                         ELSE j.cloudFile.updated
        commonSync == IF holderLocal THEN atStart.localHistory[CloudId]
                      ELSE atStart.cloudHistory[LocalId]
        mostRecent == IF holderLocal
                      THEN Max2(atStart.localHistory[CloudId],
                                atStart.localHistory[OtherId])
                      ELSE Max2(atStart.cloudHistory[LocalId],
                                atStart.cloudHistory[OtherId])
    IN  commonSync > 0 /\ commonSync > fileTimestamp /\ commonSync >= mostRecent

\* C4: for a path present on exactly one side, handleDeletion deletes it
\* from the holder iff commonSync > 0, commonSync > fileTimestamp and
\* commonSync >= mostRecent (and the path is not deletion-averse); in every
\* other case nothing is deleted and the file is copied to the missing side.
C4_DeletionIffPredicate ==
    \A j \in visited : OneSided(j) =>
        LET p == j.path
            holderLocal == j.localFile # NullItem
        IN  IF DeletionDue(j) /\ ~AverseFile
            THEN IF holderLocal
                 THEN ops[p] = <<"deleteLocal">> /\ localFiles[p] = NoFile
                 ELSE /\ ops[p] = <<"deleteCloud">>
                      /\ hubObjects[p] = NoBody
                      /\ hubIndex[p] = NoEntry
                      /\ localFiles[p] = NoFile
            ELSE IF holderLocal
                 THEN /\ ops[p] = <<"upload">>
                      /\ localFiles[p] = atStart.localFiles[p]
                      /\ hubObjects[p] = localFiles[p].body
                      /\ hubIndex[p] = [updated |-> j.localFile.updated]
                 ELSE /\ ops[p] = <<"download">>
                      /\ hubObjects[p] = atStart.hubObjects[p]
                      /\ localFiles[p] = [updated |-> j.cloudFile.updated,
                                          body |-> hubObjects[p]]

\* the deletion case of C4 has happened, on the hub side and on the local
\* side, and so has the copy in a run between endpoints that synced before
C4_Witness ==
    /\ \E j \in visited :
          OneSided(j) /\ j.localFile = NullItem /\ ops[j.path] = <<"deleteCloud">>
    /\ \E j \in visited :
          /\ OneSided(j) /\ j.localFile # NullItem
          /\ atStart.localHistory[CloudId] > 0
          /\ ops[j.path] = <<"upload">>

\* C5: when loading the index fails, load() substitutes an empty document,
\* and the run that continues with it deletes no local file between
\* endpoints that have synced before. Stated for the local files whose hub
\* object exists, the ones no endpoint has deleted.
C5_EmptyIndexDeletesNothing ==
    ( /\ indexLoadFailed
      /\ atStart.localHistory[CloudId] > 0
      /\ atStart.cloudHistory[LocalId] > 0 )
    => /\ currentIndex.loaded
       /\ \A p \in Files :
             (atStart.localFiles[p] # NoFile /\ atStart.hubObjects[p] # NoBody)
             => localFiles[p] # NoFile

\* C6: between endpoints that never synced with each other, with N files
\* present only locally (at any depth) and an empty hub, a run performs
\* exactly N uploads and no deletion on either side.
C6_FreshEndpointUploadsAll ==
    ( /\ AllSettled
      /\ atStart.localHistory[CloudId] = 0
      /\ atStart.cloudHistory[LocalId] = 0
      /\ atStart.hubIndex = EmptyFiles )
    => /\ Total("upload")
            = Cardinality({p \in Files : atStart.localFiles[p] # NoFile})
       /\ Total("deleteLocal") = 0
       /\ Total("deleteCloud") = 0
       /\ Total("download") = 0
       /\ localFiles = atStart.localFiles
       /\ \A p \in Files : atStart.localFiles[p] # NoFile =>
             hubObjects[p] = localFiles[p].body

\* a never-synced run over two local files (one of them a directory deeper)
\* older than this endpoint's sync with a third endpoint has settled
C6_Witness ==
    /\ AllSettled
    /\ atStart.localHistory[CloudId] = 0
    /\ atStart.cloudHistory[LocalId] = 0
    /\ atStart.hubIndex = EmptyFiles
    /\ \A p \in Files : atStart.localFiles[p] # NoFile
    /\ atStart.localHistory[OtherId] > atStart.localFiles[FileB].updated
    /\ Total("upload") = 2

\* C7: a path that exists only on the hub, older than the hub's pairwise
\* sync time with the local endpoint, that time being the hub's most recent
\* sync (target not deletion-averse), is deleted from the hub and from the
\* index and is not downloaded. Stated for runs whose index load succeeded.
C7_StaleHubFileDeleted ==
    (AllSettled /\ ~indexLoadFailed /\ ~AverseFile) =>
        \A p \in Files :
            ( /\ atStart.localFiles[p] = NoFile
              /\ atStart.hubIndex[p] # NoEntry
              /\ atStart.hubIndex[p].updated < atStart.cloudHistory[LocalId]
              /\ atStart.cloudHistory[LocalId] >= atStart.cloudHistory[OtherId] )
            => /\ hubObjects[p] = NoBody
               /\ hubIndex[p] = NoEntry
               /\ localFiles[p] = NoFile

\* C8: a deletion-averse path present on exactly one side is never deleted
\* and never left untouched: a copy is transferred to the missing side.
\* Stated for runs whose index load succeeded.
C8_AverseFileRestored ==
    (AllSettled /\ ~indexLoadFailed /\ AverseFile) =>
        \A p \in Files :
            ((atStart.localFiles[p] = NoFile) # (atStart.hubIndex[p] = NoEntry))
            => /\ localFiles[p] # NoFile
               /\ hubObjects[p] # NoBody
               /\ hubIndex[p] # NoEntry
               /\ ops[p] \in {<<"upload">>, <<"download">>}

\* the conflict test as the design states it
InConflict(localTs, cloudTs, localLast, cloudLast) ==
    /\ ~(localLast = 0 /\ cloudLast = 0)
    /\ localTs # cloudTs
    /\ localTs > localLast
    /\ cloudTs > cloudLast

\* the bodies that exist for path p: the local file, its local conflict
\* copies, the hub object
LiveBodies(p) ==
    ({localFiles[p].body} \cup {c.body : c \in {k \in conflictCopies : k.path = p}}
        \cup {hubObjects[p]}) \ {NoBody}

\* C10: on a conflict under keep-both, the older side's version is kept as
\* a conflict copy before the newer side overwrites the path, whichever
\* side is the older: after the run both versions exist.
C10_KeepBothKeepsBoth ==
    (AllSettled /\ conflictStrategy = "keepBoth") =>
        \A j \in visited :
            ( /\ target.trackConflicts # "false"
              /\ ~target.onlyIfMissing
              /\ j.localFile # NullItem /\ j.cloudFile # NullItem
              /\ InConflict(j.localFile.updated, j.cloudFile.updated,
                            atStart.localHistory[CloudId],
                            atStart.cloudHistory[LocalId]) )
            => {atStart.localFiles[j.path].body, atStart.hubObjects[j.path]}
                    \subseteq LiveBodies(j.path)

--------------------------------------------------------------------------
(* Property of detectConflict, checked under SpecDetect *)

\* C9: detectConflict returns true iff the two pairwise sync times are not
\* both 0, the timestamps differ, localTs > localHistory.lastSyncWith(cloud)
\* and cloudTs > cloudHistory.lastSyncWith(local).
C9_DetectConflictIff ==
    \A j \in visited :
        conflictDetected <=>
            InConflict(j.localFile.updated, j.cloudFile.updated,
                       localHistory[CloudId], cloudHistory[LocalId])

\* detectConflict has answered true, and in another call false for
\* endpoints that have synced and timestamps that differ
C9_Witness ==
    \E j \in visited :
        /\ conflictDetected
        /\ localHistory[CloudId] > 0
        /\ j.localFile.updated > j.cloudFile.updated

\* C11: keep-both applied twice to the same unresolved conflict (same path,
\* same older timestamp) derives the same conflict-copy name both times: the
\* second call overwrites the first copy, so at most one conflict-copy
\* object exists for the path afterwards.
C11_RepeatedKeepBothOneCopy ==
    \A j \in visited :
        Cardinality({c \in conflictCopies : c.path = j.path}) <= 1

\* handleConflict has run twice on a conflict whose older side is the local
\* one, and one copy of the local version exists
C11_Witness ==
    \E j \in visited :
        /\ Count(ops[j.path], "handleConflict") = 2
        /\ j.localFile.updated < j.cloudFile.updated
        /\ conflictCopies = {[path |-> j.path, stamp |-> j.localFile.updated,
                              body |-> "L"]}

--------------------------------------------------------------------------
(* Properties of syncFile for a path present on both sides, under SpecRun *)

BothSides(j) == j.localFile # NullItem /\ j.cloudFile # NullItem

\* syncFile reaches conflict detection for j and detection answers true
ConflictJob(j) ==
    /\ target.trackConflicts # "false"
    /\ ~target.onlyIfMissing
    /\ BothSides(j)
    /\ InConflict(j.localFile.updated, j.cloudFile.updated,
                  atStart.localHistory[CloudId], atStart.cloudHistory[LocalId])

\* neither side of path p has been touched by the run
Untouched(p) ==
    /\ ops[p] = <<>>
    /\ localFiles[p] = atStart.localFiles[p]
    /\ hubObjects[p] = atStart.hubObjects[p]
    /\ hubIndex[p] = atStart.hubIndex[p]

\* C12: when a conflict is detected for a path and the strategy is
\* keep-local, the run performs no upload, no download and no deletion for
\* that path, and both sides are left as they were.
C12_KeepLocalTouchesNothing ==
    conflictStrategy = "keepLocal" =>
        \A j \in visited : ConflictJob(j) => (conflictDetected /\ Untouched(j.path))

\* a keep-local run has met a conflict whose hub side is the newer one
C12_Witness ==
    /\ conflictStrategy = "keepLocal"
    /\ \E j \in visited :
          /\ ConflictJob(j)
          /\ j.cloudFile.updated > j.localFile.updated
          /\ conflictDetected

\* C13: for a path present on both sides with equal timestamps the run
\* performs no upload, no download, no deletion and no conflict handling for
\* that path, whatever the histories, target flags and conflict strategy.
C13_EqualTimestampsNoOp ==
    /\ \A j \in visited :
          (BothSides(j) /\ j.localFile.updated = j.cloudFile.updated)
          => /\ Untouched(j.path)
             /\ {c \in conflictCopies : c.path = j.path} = {}
    /\ (\A j \in visited :
            BothSides(j) => j.localFile.updated = j.cloudFile.updated)
       => ~conflictDetected

\* a file newer than both pairwise sync times, with the same timestamp on
\* both sides, has been reconciled under keep-both
C13_Witness ==
    \E j \in visited :
        /\ BothSides(j)
        /\ j.localFile.updated = j.cloudFile.updated
        /\ j.localFile.updated > atStart.localHistory[CloudId]
        /\ atStart.localHistory[CloudId] > 0
        /\ conflictStrategy = "keepBoth"

\* the transfer of C14 for a visited job j: one operation, from the side
\* with the greater timestamp to the other
NewerWins(j) ==
    LET p == j.path
    IN  IF j.localFile.updated > j.cloudFile.updated
        THEN /\ ops[p] = <<"upload">>
             /\ localFiles[p] = atStart.localFiles[p]
             /\ hubObjects[p] = atStart.localFiles[p].body
             /\ hubIndex[p] = [updated |-> j.localFile.updated]
        ELSE /\ ops[p] = <<"download">>
             /\ hubObjects[p] = atStart.hubObjects[p]
             /\ hubIndex[p] = atStart.hubIndex[p]
             /\ localFiles[p] = [updated |-> j.cloudFile.updated,
                                 body |-> atStart.hubObjects[p]]

\* conflict handling stops the reconciliation of j: a conflict is detected
\* and the strategy answers that the sync must not continue
StoppedByConflict(j) ==
    /\ target.trackConflicts # "false"
    /\ InConflict(j.localFile.updated, j.cloudFile.updated,
                  atStart.localHistory[CloudId], atStart.cloudHistory[LocalId])
    /\ conflictStrategy = "keepLocal"

\* C14 as stated: for a path present on both sides with differing
\* timestamps whose reconciliation is not stopped by conflict handling,
\* exactly one transfer happens, from the side with the strictly greater
\* timestamp to the other.
C14_NewerWinsAlways ==
    \A j \in visited :
        ( /\ BothSides(j)
          /\ j.localFile.updated # j.cloudFile.updated
          /\ ~StoppedByConflict(j) )
        => NewerWins(j)

\* C14, amended: the same, for a target that does not set onlyIfMissing
\* (under onlyIfMissing a path present on both sides is not transferred).
C14_NewerWinsUnlessOnlyIfMissing ==
    \A j \in visited :
        ( /\ BothSides(j)
          /\ j.localFile.updated # j.cloudFile.updated
          /\ ~target.onlyIfMissing
          /\ ~StoppedByConflict(j) )
        => NewerWins(j)

\* a conflict under keep-remote whose local side is the newer one has been
\* reconciled, and so has a path whose hub side is the newer one
C14_Witness ==
    /\ ~target.onlyIfMissing
    /\ \E j \in visited :
          /\ BothSides(j)
          /\ j.localFile.updated > j.cloudFile.updated
          /\ conflictStrategy = "keepRemote"
          /\ conflictDetected
          /\ ops[j.path] = <<"upload">>

--------------------------------------------------------------------------
(* Properties of the run as a whole, checked under SpecLife *)

Has(seq, x) == \E i \in 1 .. Len(seq) : seq[i] = x

\* the position of the first x in the events of the run, 0 if there is none
Pos(x) ==
    IF Has(events, x)
    THEN CHOOSE i \in 1 .. Len(events) :
            events[i] = x /\ \A k \in 1 .. (i - 1) : events[k] # x
    ELSE 0

\* y has happened only after x
Precedes(x, y) ==
    \A k \in 1 .. Len(events) :
        events[k] = y => \E i \in 1 .. (k - 1) : events[i] = x

\* x has not happened after the lock was released
NotAfterRelease(x) ==
    \A i \in 1 .. Len(events) :
        events[i] = "releaseLock" =>
            \A k \in (i + 1) .. Len(events) : events[k] # x

\* C15: within one run the phases occur in the order identity resolution,
\* index load, lock acquisition, history load, reconciliation of targets,
\* history persist, lock release: no file is reconciled before the lock is
\* acquired or after it is released, and the histories are stamped and
\* persisted only after the targets have been processed and before the lock
\* is released.
C15_PhaseOrder ==
    /\ Precedes("initializeRemotes", "setInstanceId")
    /\ Precedes("setInstanceId", "acquireLock")
    /\ Precedes("acquireLock", "lock:create")
    /\ Precedes("lock:create", "loadSyncHistories")
    /\ Precedes("loadSyncHistories", "syncTargets")
    /\ Precedes("lock:create", "syncTargets")
    /\ Precedes("syncTargets", "stampHistories")
    /\ Precedes("stampHistories", "updateSyncHistories")
    /\ NotAfterRelease("syncTargets")
    /\ NotAfterRelease("stampHistories")
    /\ NotAfterRelease("updateSyncHistories")
    /\ result = "returned" =>
          /\ Precedes("updateSyncHistories", "releaseLock")
          /\ Has(events, "releaseLock")

\* a run that removed an expired lock has gone through every phase and
\* returned
C15_Witness ==
    /\ result = "returned"
    /\ events = <<"initializeRemotes", "setInstanceId", "acquireLock",
                  "lock:delete", "lock:create", "loadSyncHistories",
                  "syncTargets", "stampHistories", "updateSyncHistories",
                  "showMessage", "releaseLock", "lock:delete">>

\* C16: every run that has acquired the lock attempts to release it before
\* sync() returns or throws, whatever failed after the acquisition; a
\* failure while releasing is only caught and does not change the outcome
\* of the run.
C16_LockAlwaysReleased ==
    (result \in {"returned", "thrown"} /\ Has(events, "lock:create"))
    => /\ Has(events, "releaseLock")
       /\ Pos("lock:create") < Pos("releaseLock")
       /\ (result = "returned") <=> (failedAt = "none")

\* a run whose body threw under the lock has attempted the release, the
\* release has failed as well, and the run ends with the body's exception
C16_Witness ==
    /\ result = "thrown"
    /\ failedAt = "showMessage"
    /\ hadErrors
    /\ releaseFailed
    /\ Has(events, "releaseLock")

\* C18: a completed run changes exactly one entry in each endpoint's sync
\* history, the one for the other endpoint of the run, to the run's
\* timestamp; the entries for all other peers are unchanged in the
\* in-memory and in the persisted histories. Stated for a first run that
\* saved both histories and replaced no identity.
C18_OneHistoryEntryChanged ==
    ( /\ result = "returned"
      /\ runs = 1
      /\ saved["local"] /\ saved["cloud"]
      /\ ~Has(events, "identityReplaced") )
    => \A sd \in Sides :
          /\ persisted[sd] = [startPersisted[sd] EXCEPT !.pair = RunStamp]
          /\ loaded[sd] = [startPersisted[sd] EXCEPT !.pair = RunStamp]

\* C19: if resolving either endpoint's identity fails, the run fails before
\* locking: it neither creates nor deletes the lock object and reconciles
\* no file.
C19_IdentityFailureBeforeLock ==
    failedAt = "initializeRemotes"
    => /\ result = "thrown"
       /\ \A i \in 1 .. Len(events) :
             events[i] \in {"initializeRemotes", "identityReplaced"}
       /\ ~Has(events, "acquireLock")
       /\ ~Has(events, "lock:create")
       /\ ~Has(events, "lock:delete")
       /\ ~Has(events, "syncTargets")

\* identity resolution has failed on a hub that holds a lock object, which
\* is still there
C19_Witness ==
    /\ failedAt = "initializeRemotes"
    /\ result = "thrown"
    /\ lifeLock
    /\ runs = 1

\* C20: an endpoint identity is created at most once: whatever fails while
\* the persisted identity is read, no run overwrites an existing identity
\* object, and the id resolved for the endpoint is the persisted one.
C20_IdentityCreatedOnce ==
    [][\A sd \in Sides :
          idObjects[sd] # 0 =>
             /\ idObjects'[sd] = idObjects[sd]
             /\ remoteIds'[sd] \in {0, idObjects[sd]}
      ]_vars

--------------------------------------------------------------------------
(* Property of failing syncFile calls, checked under SpecFaulty *)

\* the run's listing of the target contains path p: the file exists locally,
\* or the loaded index lists it directly under a directory the run scans
Listed(p) ==
    \/ atStart.localFiles[p] # NoFile
    \/ /\ ~indexLoadFailed
       /\ atStart.hubIndex[p] # NoEntry
       /\ (Parent(p) = Root \/ Parent(p) \in atStart.localDirs)

\* a SyncError has been recorded for path p
Recorded(p) == \E i \in 1 .. Len(syncErrors) : syncErrors[i].path = p

--------------------------------------------------------------------------
(* Properties of CloudIndexManager, checked under SpecIndex *)

\* the i-th call of the trail is updateFile(p, info) and the next one is
\* removeFile(p)
UpdateThenRemove(i) ==
    /\ i + 1 <= Len(ixTrail)
    /\ ixTrail[i].op = "updateFile"
    /\ ixTrail[i + 1].op = "removeFile"
    /\ ixTrail[i + 1].path = ixTrail[i].path

\* C21: updateFile(p, info) followed by removeFile(p) leaves an index in
\* which getAllFiles() has no entry for p and has, for every other path,
\* the entry it had before the two calls.
C21_UpdateThenRemoveForgets ==
    \A i \in 1 .. Len(ixTrail) :
       UpdateThenRemove(i) =>
          LET p == ixTrail[i].path
              before == getAllFiles([loaded |-> TRUE,
                                     files |-> ixTrail[i].before])
              after == getAllFiles([loaded |-> TRUE,
                                    files |-> ixTrail[i + 1].files])
          IN  /\ p \notin DOMAIN after
              /\ DOMAIN after = DOMAIN before \ {p}
              /\ \A q \in DOMAIN after : after[q] = before[q]

\* an updateFile and a removeFile of one path, made on an index that holds
\* an entry for another path
C21_Witness ==
    \E i \in 1 .. Len(ixTrail) :
       /\ UpdateThenRemove(i)
       /\ \E q \in Files \ {ixTrail[i].path} : ixTrail[i].before[q] # NoEntry
       /\ ixCache.files = ixTrail[i + 1].files

\* every call made so far has returned, none has thrown, and no two calls
\* were for the same path
CallsOfOneRunDone ==
    /\ \A s \in Siblings : ixCall[s].pc = "idle"
    /\ ~ixFailed
    /\ ixTrail # <<>>
    /\ \A i, j \in 1 .. Len(ixTrail) :
          i # j => ixTrail[i].path # ixTrail[j].path

\* C28: once all updateFile/removeFile calls of a run have completed
\* successfully, the index object of the hub holds exactly the entries of
\* the cached document.
C28_NoLostIndexUpdate ==
    CallsOfOneRunDone =>
       /\ ixObject # NoIndexObject
       /\ ixObject.files = ixCache.files


--------------------------------------------------------------------------
(* Properties of Pan123Client.uploadSingle, checked under SpecUpload *)

\* the reply echoes the digest computed locally (hex digits compared
\* without regard to case)
EchoesLocalDigest(reply) ==
    /\ reply.ok
    /\ reply.md5 # "absent"
    /\ toLowerCase(reply.md5) = chunkMd5

\* the reply echoes a digest other than the one computed locally
EchoesOtherDigest(reply) ==
    /\ reply.ok
    /\ reply.md5 # "absent"
    /\ toLowerCase(reply.md5) # chunkMd5

\* slices are submitted one after the other, from slice 1 on, each request
\* being for the slice of the previous request or for the next one
InSliceOrder ==
    /\ upLog # <<>> => upLog[1].sliceNo = 1
    /\ \A i \in 2 .. Len(upLog) :
          upLog[i].sliceNo \in {upLog[i - 1].sliceNo, upLog[i - 1].sliceNo + 1}
    /\ upPc = "slice" =>
          upSliceNo = IF upLog = <<>> THEN 1
                      ELSE IF /\ upLog[Len(upLog)].reply.ok
                              /\ ~EchoesOtherDigest(upLog[Len(upLog)].reply)
                      THEN upLog[Len(upLog)].sliceNo + 1
                      ELSE upLog[Len(upLog)].sliceNo

\* the i-th request was counted as a successful slice: the next request is
\* for the next slice, or it was the last request and uploadSlices went on
CountedAsSuccess(i) ==
    IF i < Len(upLog)
    THEN upLog[i + 1].sliceNo = upLog[i].sliceNo + 1
    ELSE upPc \in {"complete", "returned"} \/ upPolls > 0
         \/ (upPc = "slice" /\ upSliceNo = upLog[i].sliceNo + 1)

\* C22 (as stated): slices are submitted one at a time in increasing order
\* from 1; slice k+1 is submitted only after slice k was accepted with an
\* echoed digest equal to the local one; a reply echoing another digest is
\* never counted as a successful slice.
C22_NextSliceAfterEqualEcho ==
    /\ InSliceOrder
    /\ \A i \in 1 .. Len(upLog) :
          /\ CountedAsSuccess(i) => EchoesLocalDigest(upLog[i].reply)
          /\ EchoesOtherDigest(upLog[i].reply) => ~CountedAsSuccess(i)

\* C22 (amended): slices are submitted one at a time in increasing order
\* from 1; slice k+1 is submitted only after slice k was accepted by a reply
\* that echoes no digest or echoes the local one; a reply echoing another
\* digest is never counted as a successful slice.
C22_NextSliceAfterNoOtherEcho ==
    /\ InSliceOrder
    /\ \A i \in 1 .. Len(upLog) :
          /\ CountedAsSuccess(i) =>
                /\ upLog[i].reply.ok
                /\ ~EchoesOtherDigest(upLog[i].reply)
          /\ EchoesOtherDigest(upLog[i].reply) => ~CountedAsSuccess(i)

\* slice 1 was retried after a reply echoing another digest, then accepted
\* with the local digest, and slice 2 was submitted
C22_Witness ==
    /\ Len(upLog) = 3
    /\ upLog[1].sliceNo = 1 /\ EchoesOtherDigest(upLog[1].reply)
    /\ upLog[2].sliceNo = 1 /\ EchoesLocalDigest(upLog[2].reply)
    /\ upLog[3].sliceNo = 2

\* the reply to the i-th request was a failure of that attempt
Rejected(i) ==
    ~upLog[i].reply.ok \/ EchoesOtherDigest(upLog[i].reply)

\* the requests made for slice k
AttemptsOf(k) == {i \in 1 .. Len(upLog) : upLog[i].sliceNo = k}

FailedAllButLast(k) ==
    \A a \in 1 .. MAX_SLICE_RETRIES - 1 :
       \E i \in AttemptsOf(k) : upLog[i].attempt = a /\ Rejected(i)

\* apart from attempts before the last one of a slice, the hub has failed
\* nothing: no last attempt, and no completion request
HubFailsNothingElse ==
    /\ \A i \in 1 .. Len(upLog) :
          Rejected(i) => upLog[i].attempt < MAX_SLICE_RETRIES
    /\ upLastReply \in {NoReply, "verifying", "pending", "completed"}
    /\ upPolls < maxAttempts \/ upLastReply = "completed"

PollsOnlyWhileVerifying ==
    /\ upPolls <= maxAttempts
    /\ (upPc = "complete" /\ upPolls > 0) =>
          upLastReply \in {"verifying", "pending"}
    /\ upLastReply = "error" => (upPc = "thrown" /\ upResult = NoResult)
    /\ upLastReply = "completed" =>
          /\ upPc = "returned"
          /\ upResult = [fileId |-> NewFileId, completed |-> TRUE]
    /\ (upPolls = maxAttempts /\ upLastReply \in {"verifying", "pending"}) =>
          (upPc = "thrown" /\ upResult = NoResult)

--------------------------------------------------------------------------
(* Properties of StorageItem.joinItems, checked under SpecJoin *)

\* the paths of the children of a files array
PathsOf(files) == {files[i].path : i \in 1 .. Len(files)}

\* the entry a files array holds last for the path
LastEntry(files, path) ==
    files[CHOOSE i \in 1 .. Len(files) :
             /\ files[i].path = path
             /\ \A j \in (i + 1) .. Len(files) : files[j].path # path]

\* joinItems was called with two items of the same path
JoinedTwoTrees ==
    /\ joinResult # NotJoined
    /\ joinItem1 # NullStorageItem
    /\ joinItem2 # NullStorageItem
    /\ joinItem1.path = joinItem2.path

\* C26: joinItems(a, b) of two trees with the same root path returns a tree
\* whose children are the union of a's and b's children keyed by path; a
\* child path present in both appears once and carries b's entry; the
\* result never holds two children with the same path.
C26_JoinIsUnionSecondWins ==
    JoinedTwoTrees =>
       /\ joinResult # JoinThrows
       /\ joinResult.path = joinItem1.path
       /\ PathsOf(joinResult.files)
             = PathsOf(joinItem1.files) \cup PathsOf(joinItem2.files)
       /\ \A i, j \in 1 .. Len(joinResult.files) :
             joinResult.files[i].path = joinResult.files[j].path => i = j
       /\ \A i \in 1 .. Len(joinResult.files) :
             LET c == joinResult.files[i]
             IN  IF c.path \in PathsOf(joinItem2.files)
                 THEN c = LastEntry(joinItem2.files, c.path)
                 ELSE c = LastEntry(joinItem1.files, c.path)

\* both trees hold the file, with different timestamps, and only the first
\* holds the directory
C26_Witness ==
    /\ JoinedTwoTrees
    /\ joinItem1.files = <<[path |-> FileA, updated |-> 1],
                           [path |-> DirD, updated |-> 1]>>
    /\ joinItem2.files = <<[path |-> FileA, updated |-> 2]>>
    /\ joinResult.files = <<[path |-> FileA, updated |-> 2],
                            [path |-> DirD, updated |-> 1]>>


--------------------------------------------------------------------------
(* Properties of the result message, checked under SpecReport *)

\* C27: a run that was not aborted reports exactly one outcome: success
\* with errors iff a SyncError was recorded during the run, otherwise
\* success with conflicts iff a conflict was detected during the run,
\* otherwise clean success; errors and conflicts of earlier runs of the
\* same manager do not count.
C27_OneOutcomePerRun ==
    /\ Len(rpMessages) = IF rpPc = "running" THEN rpRuns - 1 ELSE rpRuns
    /\ rpPc = "reported" =>
          LET m == rpMessages[rpRuns]
          IN  /\ m \in {"syncCompletedWithErrors", "syncCompletedWithConflicts",
                        "syncCompletedSuccessfully"}
              /\ m = "syncCompletedWithErrors" <=> rpPushed > 0
              /\ m = "syncCompletedWithConflicts" <=>
                    (rpPushed = 0 /\ rpDetected)
              /\ m = "syncCompletedSuccessfully" <=>
                    (rpPushed = 0 /\ ~rpDetected)

\* a run that reported errors, followed by a run of the same manager that
\* reports clean success
C27_Witness ==
    /\ rpRuns = 2
    /\ rpPc = "reported"
    /\ rpMessages = <<"syncCompletedWithErrors", "syncCompletedSuccessfully">>


--------------------------------------------------------------------------
(* Hub-only directories, checked under SpecRun *)

\* C29: a file the hub index records under a subdirectory that does not
\* exist locally is reconciled by the run; on a local endpoint that lacks
\* the directory and has never synced, the file is downloaded.
C29_HubOnlyDirectoryDownloaded ==
    (AllSettled /\ ~indexLoadFailed) =>
        \A p \in Files :
            ( /\ Parent(p) \in Dirs
              /\ Parent(p) \notin atStart.localDirs
              /\ atStart.hubIndex[p] # NoEntry
              /\ atStart.localHistory[CloudId] = 0
              /\ atStart.cloudHistory[LocalId] = 0 )
            => /\ \E j \in visited : j.path = p
               /\ localFiles[p] # NoFile


--------------------------------------------------------------------------
(* Deletion-averse targets inside another target, checked under SpecTargets *)

\* C30: with the default target list, a file under a target whose flags
\* make it deletion-averse is never deleted on either side by any run,
\* whichever target of the list is being processed, the enclosing one
\* included.
C30_AverseSubtreeNeverDeleted ==
    \A p \in {q \in Files : StartsWith(q, DirD)} :
       /\ Count(ops[p], "deleteLocal") = 0
       /\ Count(ops[p], "deleteCloud") = 0

--------------------------------------------------------------------------
(* Conflict tracking per target, checked under SpecRun *)

\* C31: the conflict resolver is consulted only for a target whose
\* trackConflicts flag is set: in a run over a target that does not set the
\* flag no conflict is flagged (and so no conflict strategy is applied).
C31_ResolverOnlyWhenFlagSet ==
    target.trackConflicts # "true" => ~conflictDetected


--------------------------------------------------------------------------
(* The error list of a run with failures, checked under SpecFaulty *)

\* the positions of the SyncErrors recorded for path p
ErrorsOf(p) == {i \in 1 .. Len(syncErrors) : syncErrors[i].path = p}

\* the kind of the operation syncFile performs for job j
OperationKind(j) ==
    LET d == syncFile(j.localFile, j.cloudFile, target, conflictStrategy,
                      atStart.localHistory, atStart.cloudHistory)
    IN  CASE d.action = "upload" -> "upload"
          [] d.action = "download" -> "download"
          [] OTHER -> "delete"

\* C33: each failed file-level operation adds exactly one SyncError to the
\* run's list, carrying the path and the kind (upload, download or delete)
\* of the operation that failed.
C33_OneErrorPerFailure ==
    \A j \in visited :
        (ops[j.path] = <<>> /\ ErrorsOf(j.path) # {}) =>
            /\ Cardinality(ErrorsOf(j.path)) = 1
            /\ \A i \in ErrorsOf(j.path) :
                  syncErrors[i].operation = OperationKind(j)


--------------------------------------------------------------------------
(* Properties of successive runs, checked under SpecSeries *)

\* C34: a file that exists only locally and has never been stored on the
\* hub is never deleted from the local side by a run, whatever runs came
\* before (a run in which its upload failed and the histories were stamped
\* included).
C34_NeverUploadedNeverDeleted ==
    [][ ( /\ sqPc = "syncing"
          /\ sqLocal[FileA] # 0
          /\ sqIndex[FileA] = 0
          /\ FileA \notin sqOnHub )
        => sqLocal'[FileA] # 0 ]_vars


\* C35: a conflict copy written locally by keepBoth (with the older
\* version's timestamp) is not removed by later runs: no run deletes it
\* from the local side.
C35_ConflictCopyStays ==
    [][ (sqPc = "syncing" /\ sqLocal[conflictPath] # 0)
        => sqLocal'[conflictPath] # 0 ]_vars


\* C39: re-sync is idempotent: a run that follows a run completed with no
\* errors, with no change on either side in between, performs no upload,
\* no download and no deletion.
C39_ResyncIdempotent ==
    (sqSettled /\ sqPc = "syncing") => sqOps = {}


--------------------------------------------------------------------------
(* Ownership of the lock at release, checked under SpecLock *)

\* C37: releaseLock removes the lock object only if it is the lock the run
\* itself created: a run whose lock was replaced by another run does not
\* delete that run's lock when it finishes.
C37_ReleaseOnlyOwnLock ==
    [][\A r \in Runs :
          (pc[r] = "removeLock" /\ pc'[r] = "done" /\ hubLock' # hubLock)
          => hubLock.holder = r
      ]_vars


--------------------------------------------------------------------------
(* The index document across runs, checked under SpecShared *)

\* C36: the index document a run reconciles against, and the document the
\* hub holds, reflect every update persisted by a run that has released
\* the lock: a run holding the lock works on a document with every entry
\* persisted before it acquired the lock, and no save replaces the hub
\* document by one that lacks such an entry.
C36_IndexReflectsReleasedRuns ==
    /\ \A m \in Managers :
          shPc[m] \in {"reconcile", "uploaded"} => shBase[m] \subseteq shCache[m].files
    /\ shReleased \subseteq shIndex


--------------------------------------------------------------------------
(* The outcome of a run whose histories are not saved, checked under SpecLife *)

\* C40: a run reports success only if both sync histories were persisted:
\* a run that has returned with no error recorded has saved both
\* histories, and the two persisted histories carry the same timestamp for
\* each other.
C40_SuccessMeansHistoriesSaved ==
    (result = "returned" /\ ~hadErrors)
    => /\ saved["local"] /\ saved["cloud"]
       /\ persisted["local"].pair = persisted["cloud"].pair


--------------------------------------------------------------------------
(* The hub object of a path whose upload fails, checked under SpecFaulty *)

\* C38: if uploading a file fails, the hub object stored for the path and
\* its index entry are left as they were: the entry the hub index holds for
\* the path after the failure still has its object (the index does not
\* reference an object the run has deleted).
C38_FailedUploadKeepsHubObject ==
    \A j \in visited :
        ( /\ ErrorsOf(j.path) # {}
          /\ ops[j.path] = <<>>
          /\ OperationKind(j) = "upload"
          /\ hubIndex[j.path] # NoEntry )
        => /\ hubIndex[j.path] = atStart.hubIndex[j.path]
           /\ hubObjects[j.path] # NoBody

==========================================================================
